---- MODULE Spec2Model ----
(***************************************************************************)
(* BuildCasa Get Offer flow: the flow-state machine and the view-models    *)
(* that drive it (src/index.js), with the modal exit policy of the later   *)
(* build (src/unnamed/part_000).                                           *)
(*                                                                         *)
(* JavaScript values are modelled as strings: a state or event name is     *)
(* itself, `undefined` is Undefined, the empty object {} is EmptyObject.   *)
(***************************************************************************)
EXTENDS Integers, Sequences, FiniteSets, TLC

(***************************************************************************)
(* Bounds of the model.                                                    *)
(***************************************************************************)
\* longest list of matches the address lookup returns
MaxMatches == 2
\* the same, in Spec and SpecRetry, where which match is chosen plays no part
MaxFlowMatches == 1
\* fetchAddressMatches calls in flight at once
MaxLookups == 1
\* submitAddress calls awaiting a parcel or estimate response at once
MaxAddressSubmissions == 1
\* the same, where submissions overlap
MaxOverlappingAddressSubmissions == 2
\* submitContact calls whose join or analysis sequence is still running at once
MaxContactSubmissions == 1
\* the same, where submissions overlap
MaxOverlappingContactSubmissions == 2
\* matches the typeahead shows where the keyboard is studied
MaxShownMatches == 3
\* lookups in flight at once where overlapping lookups are studied
MaxOverlappingLookups == 2

(***************************************************************************)
(* JavaScript values.                                                      *)
(***************************************************************************)
Undefined == "undefined"
EmptyObject == "{}"

\* Property names every object literal inherits from Object.prototype: a
\* lookup obj[key] with one of these keys yields the inherited member (a
\* truthy value that has no `target`), not undefined.
ObjectPrototypeKeys ==
  {"constructor", "toString", "__proto__", "valueOf", "hasOwnProperty",
   "isPrototypeOf", "propertyIsEnumerable", "toLocaleString",
   "__defineGetter__", "__defineSetter__", "__lookupGetter__",
   "__lookupSetter__"}

\* {...a, ...b}: the keys of both, b's value where both define a key.
Spread(a, b) == b @@ a

(***************************************************************************)
(* createFlowStateMachine: the shared transition fragments and the table.  *)
(***************************************************************************)
\* A slip in the shared SUBMIT_ADDRESS fragment: the page's form enters the
\* modal's processing state.
submitAddressTransitionIntoTheModal == [SUBMIT_ADDRESS |-> [target |-> "modalAddressFormProcessing"]]

submitAddressTransition == [SUBMIT_ADDRESS |-> [target |-> "addressFormProcessing"]]

modalSubmitAddressTransition == [SUBMIT_ADDRESS |-> [target |-> "modalAddressFormProcessing"]]

submitContactTransition == [SUBMIT_CONTACT |-> [target |-> "contactFormProcessing"]]

\* A slip in the shared EXIT fragment: it targets the modal's first state.
exitTransitionToModal == [EXIT |-> [target |-> "modalAddressForm"]]

exitTransition == [EXIT |-> [target |-> "default"]]

defaultState == "default"

states ==
  [ default |->
      [transitions |-> Spread(submitAddressTransition,
                              [START_MODAL_FLOW |-> [target |-> "modalAddressForm"]])],
    addressFormProcessing |->
      [transitions |-> [SUCCESS |-> [target |-> "contactForm"],
                        SKIP_CONTACT |-> [target |-> "estimateResults"],
                        ERROR |-> [target |-> "addressFormError"]]],
    addressFormError |->
      [transitions |-> submitAddressTransition],
    modalAddressForm |->
      [transitions |-> Spread(modalSubmitAddressTransition, exitTransition)],
    modalAddressFormProcessing |->
      [transitions |-> Spread([SUCCESS |-> [target |-> "contactForm"],
                               SKIP_CONTACT |-> [target |-> "estimateResults"],
                               ERROR |-> [target |-> "modalAddressFormError"]],
                              exitTransition)],
    modalAddressFormError |->
      [transitions |-> Spread(modalSubmitAddressTransition, exitTransition)],
    contactForm |->
      [transitions |-> Spread(submitContactTransition, exitTransition)],
    contactFormProcessing |->
      [transitions |-> Spread([SUCCESS |-> [target |-> "estimateResults"],
                               ERROR |-> [target |-> "contactFormError"]],
                              exitTransition)],
    contactFormError |->
      [transitions |-> Spread(submitContactTransition, exitTransition)],
    estimateResults |->
      [transitions |-> Spread([SCHEDULE |-> [target |-> "scheduleConsultation"],
                               REQUEST_COMMUNITY |-> [target |-> "requestedCommunity"]],
                              exitTransition)],
    scheduleConsultation |->
      [transitions |-> exitTransition],
    requestedCommunity |->
      [transitions |-> exitTransition] ]

\* The keys of the table.
States == DOMAIN states

\* The events the handlers of the program fire.
Events ==
  {"SUBMIT_ADDRESS", "START_MODAL_FLOW", "SUCCESS", "SKIP_CONTACT", "ERROR",
   "EXIT", "SUBMIT_CONTACT", "SCHEDULE", "REQUEST_COMMUNITY"}

(***************************************************************************)
(* trackEvent(eventName, eventProperties): the record handed to the        *)
(* tracking backend.  trackEvent catches whatever the backend throws, so a *)
(* call contributes a record and nothing else.                             *)
(***************************************************************************)
trackEvent(eventName, eventProperties) ==
  <<[name |-> eventName, properties |-> eventProperties]>>

NoProperties == [none |-> TRUE]

\* A slip in transition: `currentStateDefinition?.transitions?.[event]`, so a
\* state the table does not hold reports the event instead of failing.
transitionOfUnknownStateReports(currentState, event) ==
  LET transitions == IF currentState \in DOMAIN states
                       THEN states[currentState].transitions ELSE <<>>
  IN
  IF event \in DOMAIN transitions
    THEN [threw |-> FALSE, value |-> transitions[event].target, tracked |-> <<>>]
  ELSE IF currentState \in DOMAIN states /\ event \in ObjectPrototypeKeys
    THEN [threw |-> FALSE, value |-> Undefined, tracked |-> <<>>]
  ELSE [threw |-> FALSE, value |-> currentState,
        tracked |-> trackEvent("Invalid State Transition Triggered",
                               [current_state_str |-> currentState, event_str |-> event])]

\* A slip in transition: the invalid branch tracks the event and returns
\* nothing.
transitionWithoutReturn(currentState, event) ==
  IF currentState \notin DOMAIN states
    THEN [threw |-> TRUE, value |-> Undefined, tracked |-> <<>>]
    ELSE LET transitions == states[currentState].transitions IN
         IF event \in DOMAIN transitions
           THEN [threw |-> FALSE, value |-> transitions[event].target, tracked |-> <<>>]
         ELSE IF event \in ObjectPrototypeKeys
           THEN [threw |-> FALSE, value |-> Undefined, tracked |-> <<>>]
         ELSE [threw |-> FALSE, value |-> Undefined,
               tracked |-> trackEvent("Invalid State Transition Triggered",
                                      [current_state_str |-> currentState,
                                       event_str |-> event])]

(***************************************************************************)
(* flowStateMachine.transition(currentState, event).                       *)
(*   threw   - the call ended in a TypeError                               *)
(*   value   - the value returned (Undefined when it threw)                *)
(*   tracked - the records passed to trackEvent                            *)
(***************************************************************************)
transition(currentState, event) ==
  IF currentState \notin DOMAIN states
    THEN \* this.states[currentState] is undefined, or an inherited member
         \* without `transitions`: reading [event] of undefined throws
         [threw |-> TRUE, value |-> Undefined, tracked |-> <<>>]
    ELSE LET transitions == states[currentState].transitions IN
         IF event \in DOMAIN transitions
           THEN [threw |-> FALSE, value |-> transitions[event].target, tracked |-> <<>>]
         ELSE IF event \in ObjectPrototypeKeys
           THEN \* transitions[event] is the inherited member: truthy, so the
                \* guard is passed, and its `target` is undefined
                [threw |-> FALSE, value |-> Undefined, tracked |-> <<>>]
         ELSE [threw |-> FALSE, value |-> currentState,
               tracked |-> trackEvent("Invalid State Transition Triggered",
                                      [current_state_str |-> currentState,
                                       event_str |-> event])]

(***************************************************************************)
(* trackEvent of src/index.js on a tracking backend.  FS is the global the *)
(* FullStory snippet defines:                                              *)
(*   "available"  - FS.event records the event                             *)
(*   "absent"     - FS is declared and falsy: the snippet has not run      *)
(*   "undeclared" - FS is not declared: reading it is a ReferenceError     *)
(*   "failing"    - FS.event throws                                        *)
(* The result: whether the call threw into its caller, and the records the *)
(* backend took.                                                           *)
(***************************************************************************)
Backends == {"available", "absent", "undeclared", "failing"}

\* The try block of trackEvent: `if (FS) { FS.event(...) }`.
FSEvent(FS, record) ==
  IF FS = "available" THEN [threw |-> FALSE, delivered |-> <<record>>]
  ELSE IF FS = "absent" THEN [threw |-> FALSE, delivered |-> <<>>]
  ELSE [threw |-> TRUE, delivered |-> <<>>]

\* A slip in trackEvent: no try around the call of the backend.
trackEventOnWithoutCatch(FS, record) == FSEvent(FS, record)

\* trackEvent: the catch block swallows what the try block threw.
trackEventOn(FS, record) ==
  [threw |-> FALSE, delivered |-> FSEvent(FS, record).delivered]

\* transition(currentState, event) with trackEvent on the backend FS: the
\* records it tracks are sent in order, and a trackEvent that throws ends
\* the call before its return.
RECURSIVE Sent(_, _)
Sent(FS, records) ==
  IF records = <<>> THEN [threw |-> FALSE, delivered |-> <<>>]
  ELSE LET first == trackEventOn(FS, Head(records)) IN
       IF first.threw THEN first
       ELSE LET rest == Sent(FS, Tail(records)) IN
            [threw |-> rest.threw, delivered |-> first.delivered \o rest.delivered]

transitionOn(FS, currentState, event) ==
  LET r == transition(currentState, event)
      sent == Sent(FS, r.tracked)
  IN
  IF sent.threw
    THEN [threw |-> TRUE, value |-> Undefined, tracked |-> r.tracked,
          delivered |-> sent.delivered]
    ELSE [threw |-> r.threw, value |-> r.value, tracked |-> r.tracked,
          delivered |-> sent.delivered]

(***************************************************************************)
(* The TurboHome page, src/src/th-home.js.                                 *)
(* createFlowStateMachine of THGetStartedFlow.js: the table.               *)
(***************************************************************************)
thExitTransition == [EXIT |-> [target |-> "default"]]

thStates ==
  [ default |->
      [transitions |-> [GET_STARTED |-> [target |-> "modalGetStartedForm"],
                        GET_DEMO |-> [target |-> "modalGetDemoForm"]]],
    modalGetStartedForm |-> [transitions |-> thExitTransition],
    modalGetDemoForm |-> [transitions |-> thExitTransition] ]

Null == "null"

\* The values of the get_started parameter of the session URL: absent,
\* 'complete', anything else.
GetStartedURLParams == {Null, "complete", "pending"}

\* initStores: the initial flow state.
getStartedFlowState(getStartedURLParam) ==
  IF getStartedURLParam # Null /\ getStartedURLParam = "complete"
    THEN "modalGetStartedComplete" ELSE "default"

\* $store.flowState.transition(event), of createFlowState: the machine's
\* transition applied to the value held.  A value the table does not hold
\* is a programming error, an event the state does not define leaves the
\* value as it is and is reported.
\*   threw - the call ended in an error; value - the value held afterwards
thTransition(value, event) ==
  IF value \notin DOMAIN thStates
    THEN [threw |-> TRUE, value |-> value, tracked |-> <<>>]
    ELSE LET transitions == thStates[value].transitions IN
         IF event \in DOMAIN transitions
           THEN [threw |-> FALSE, value |-> transitions[event].target, tracked |-> <<>>]
           ELSE [threw |-> FALSE, value |-> value,
                 tracked |-> trackEvent("Invalid State Transition Triggered",
                                        [current_state_str |-> value, event_str |-> event])]

\* The page not loaded.
NoTurboHome ==
  [getStartedURLParam |-> Null, value |-> "default", popupTimer |-> "none",
   variation |-> "none"]

(***************************************************************************)
(* The program's state.                                                    *)
(***************************************************************************)
VARIABLES
  build,               \* which script runs: "index.js", "part_000", "th-home.js"
  flowState,           \* $store.flowState.value
  addressViewModel,    \* $store.addressViewModel
  contactViewModel,    \* $store.contactViewModel
  estimateViewModel,   \* $store.estimateViewModel
  lookups,             \* fetchAddressMatches calls awaited by handleInput
  addressSubmissions,  \* submitAddress calls suspended at an await
  contactSubmissions,  \* submitContact calls suspended at their join
  out,                 \* what the last handler or completion did
  probe,               \* a direct call of transition and its result
  turboHome            \* the TurboHome page: its flow state and popup timer

vars ==
  <<build, flowState, addressViewModel, contactViewModel, estimateViewModel,
    lookups, addressSubmissions, contactSubmissions, out, probe, turboHome>>

(***************************************************************************)
(* Inputs and service responses.                                           *)
(***************************************************************************)
\* Texts the user types into the address field.
Queries == {"12 Oak"}

\* Texts typed one after the other where overlapping lookups are studied.
SuccessiveQueries == {"12 Oak", "12 Oak St"}

\* What the user types into the contact form, one field after the other from
\* the first to the last.
ContactEdits ==
  << [field |-> "firstName", text |-> "Ada"],
     [field |-> "lastName", text |-> "Lovelace"],
     [field |-> "email", text |-> "ada@example.com"],
     [field |-> "phone", text |-> "555 0100"],
     [field |-> "desiredTimeline", text |-> "this year"] >>

\* What the address lookup knows: ll_uuid of each match, best score first.
MatchIds(n) == [i \in 1..n |-> "m" \o ToString(i)]

Address(match) == match \o " Main St"

Context(match) == "Springfield, CA"

\* The lists fetchAddressMatches can return (already filtered, sorted and
\* sliced): the first n known matches, n = 0..maxMatches.
MatchLists(maxMatches) == {MatchIds(n) : n \in 0..maxMatches}

\* What fetchParcelDetails resolves with: a parcel record with apn and
\* jurisdiction set (filterParcelDetails of a well-formed response).
ParcelResponses == {"parcel"}

\* What fetchEstimateResults resolves with: jurisdiction.status with the
\* estimate.
EstimateResponses ==
  {[jurisdiction |-> [status |-> "active"], estimate |-> [low |-> 1, high |-> 2]]}

Keys == {"Enter", "ArrowUp", "ArrowDown", "Tab"}

\* A slip in sequenceLotAnalysisSteps: the zoning step is left out.
analysisStepsWithoutZoning ==
  <<"Checking flood zones...", "Checking fire hazard zones...",
    "Checking lot shape & size...">>

analysisSteps ==
  <<"Checking flood zones...", "Checking fire hazard zones...",
    "Checking zoning district...", "Checking lot shape & size...">>

AddressLookupError ==
  "There was an error finding your address. Please try again, or contact us for help."

AddressSubmitError ==
  "There was an error processing your address. Please try again, or contact us for help."

ContactSubmitError ==
  "There was an error processing your info. Please try again, or contact us for help."

(***************************************************************************)
(* Getters of the stores.                                                  *)
(***************************************************************************)
\* addressViewModel.isSelected; Object.keys(undefined) throws.
isSelectedThrows == addressViewModel.selectedMatch = Undefined

isSelected == addressViewModel.selectedMatch \notin {EmptyObject, Undefined}

hasParcelDetails == addressViewModel.parcelDetails # EmptyObject

hasResults == estimateViewModel.jurisdiction.status # ""

hasActiveJurisdiction == estimateViewModel.jurisdiction.status = "active"

hasEstimate == estimateViewModel.estimate.low # 0 /\ estimateViewModel.estimate.high # 0

\* estimateViewModel.init()
estimateViewModelInit ==
  [jurisdiction |-> [status |-> ""], estimate |-> [low |-> 0, high |-> 0]]

\* A slip in modalHelpers.isOpen: the two states after the estimate are
\* forgotten.
isOpenUpToTheEstimate ==
  \/ flowState = "modalAddressForm"
  \/ flowState = "modalAddressFormProcessing"
  \/ flowState = "modalAddressFormError"
  \/ flowState = "contactForm"
  \/ flowState = "contactFormProcessing"
  \/ flowState = "contactFormError"
  \/ flowState = "estimateResults"

\* modalHelpers.isOpen
isOpen ==
  \/ flowState = "modalAddressForm"
  \/ flowState = "modalAddressFormProcessing"
  \/ flowState = "modalAddressFormError"
  \/ flowState = "contactForm"
  \/ flowState = "contactFormProcessing"
  \/ flowState = "contactFormError"
  \/ flowState = "estimateResults"
  \/ flowState = "scheduleConsultation"
  \/ flowState = "requestedCommunity"

(***************************************************************************)
(* The record of a step: the handler or completion that ran, the events it *)
(* fired, the tracking records it emitted, the service calls it issued,    *)
(* whether it ended in an uncaught error, whether it blocked the key's     *)
(* default behaviour, the state the submission it started or resumed was   *)
(* called in (for a lookup: the text it was called for), how many steps    *)
(* that submission has run with no other step between them since its call  *)
(* (0: another step came between), whether it is still suspended after     *)
(* this step, and what the step received from outside the stores: the      *)
(* response of a lookup, the population of the contact fields and the      *)
(* user's answer to a confirmation.                                        *)
(***************************************************************************)
Step(op, fired, tracked, issued) ==
  [op |-> op, fired |-> fired, tracked |-> tracked, issued |-> issued,
   threw |-> FALSE, prevented |-> FALSE, origin |-> "", alone |-> 0,
   pending |-> FALSE, received |-> <<>>]

\* The step record of a specification that observes no steps: it stays as
\* it is.
Unobserved == Step("unobserved", <<>>, <<>>, <<>>)

Observe(step) == IF out = Unobserved THEN out ELSE step

\* The length of a submission's uninterrupted run after one more step.
Run(alone) == IF alone THEN out.alone + 1 ELSE 0

\* The state a submission was called in: `named`, or another one.
Origin(state, named) == IF state = named THEN state ELSE "other"

NoProbe ==
  [currentState |-> "", event |-> "", result |-> transition("default", "EXIT"),
   FS |-> "available", onBackend |-> transitionOn("available", "default", "EXIT")]

RemoveAt(s, i) == SubSeq(s, 1, i - 1) \o SubSeq(s, i + 1, Len(s))

\* The value $store.flowState.value holds after
\* `$store.flowState.value = transition(...)`: unassigned when it threw.
Assigned(r, old) == IF r.threw THEN old ELSE r.value

(***************************************************************************)
(* Construction: initViewModels, initFlowState, initUIHelpers.             *)
(***************************************************************************)
Constructed ==
  /\ flowState = defaultState
  /\ addressViewModel =
       [inputValue |-> "", matches |-> <<>>, keyboardNavIndex |-> -1,
        selectedMatch |-> EmptyObject, parcelDetails |-> EmptyObject,
        errorMessage |-> ""]
  /\ contactViewModel =
       [firstName |-> "", lastName |-> "", email |-> "", phone |-> "",
        desiredTimeline |-> "", errorMessage |-> "", isSubmitted |-> FALSE,
        lotAnalysisStep |-> "Checking..."]
  /\ estimateViewModel = estimateViewModelInit
  /\ lookups = <<>>
  /\ addressSubmissions = <<>>
  /\ contactSubmissions = <<>>
  /\ probe = NoProbe
  /\ turboHome = NoTurboHome

\* Either build, its steps not observed.
Init ==
  /\ build \in {"index.js", "part_000"}
  /\ Constructed
  /\ out = Unobserved

\* The stores once the address "m1" has been typed, selected and submitted
\* from 'default', and its parcel and estimate have been fetched.
ContactFormReached ==
  /\ flowState = "contactForm"
  /\ addressViewModel =
       [inputValue |-> Address("m1") \o ", " \o Context("m1"), matches |-> <<>>,
        keyboardNavIndex |-> -1, selectedMatch |-> "m1",
        parcelDetails |-> "parcel", errorMessage |-> ""]
  /\ contactViewModel =
       [firstName |-> "", lastName |-> "", email |-> "", phone |-> "",
        desiredTimeline |-> "", errorMessage |-> "", isSubmitted |-> FALSE,
        lotAnalysisStep |-> "Checking..."]
  /\ estimateViewModel \in EstimateResponses
  /\ lookups = <<>>
  /\ addressSubmissions = <<>>
  /\ contactSubmissions = <<>>
  /\ probe = NoProbe
  /\ turboHome = NoTurboHome

\* Either build at the contact form, its steps observed.
InitContactForm ==
  /\ build \in {"index.js", "part_000"}
  /\ ContactFormReached
  /\ out = Step("init", <<>>, <<>>, <<>>)

\* Either build, its steps observed.
InitObserved ==
  /\ build \in {"index.js", "part_000"}
  /\ Constructed
  /\ out = Step("init", <<>>, <<>>, <<>>)

(***************************************************************************)
(* addressViewModel.                                                       *)
(***************************************************************************)
\* The `input` event of the address field: the page's x-model binding
\* stores the user's text in inputValue.  The call of handleInput that the
\* event leads to is debounced by the page: it is a later step, and other
\* handlers run between the two.
inputEdited(queries) ==
  \E text \in queries :
    /\ text # addressViewModel.inputValue
    /\ addressViewModel' = [addressViewModel EXCEPT !.inputValue = text]
    /\ out' = Observe(Step("input", <<>>, <<>>, <<>>))
    /\ UNCHANGED <<build, turboHome, flowState, contactViewModel, estimateViewModel,
                   lookups, addressSubmissions, contactSubmissions, probe>>

\* handleInput(), up to its await of fetchAddressMatches(this.inputValue):
\* the text looked up is the one the store holds at the call.
handleInput(maxLookups) ==
  /\ Len(lookups) < maxLookups
  /\ IF isSelectedThrows
       THEN \* `this.isSelected` throws: the call ends in a rejected promise
            /\ out' = Observe([Step("handleInput", <<>>, <<>>, <<>>) EXCEPT !.threw = TRUE])
            /\ UNCHANGED <<addressViewModel, contactViewModel, estimateViewModel, lookups>>
       ELSE /\ addressViewModel' =
                 [addressViewModel EXCEPT
                    !.selectedMatch = IF isSelected THEN EmptyObject ELSE @,
                    !.parcelDetails = IF hasParcelDetails THEN EmptyObject ELSE @]
            /\ estimateViewModel' =
                 IF hasResults THEN estimateViewModelInit ELSE estimateViewModel
            /\ contactViewModel' =
                 [contactViewModel EXCEPT
                    !.isSubmitted = IF contactViewModel.isSubmitted THEN FALSE ELSE @]
            /\ lookups' = Append(lookups, [query |-> addressViewModel.inputValue])
            /\ out' = Observe(Step("handleInput", <<>>, <<>>, <<"fetchAddressMatches">>))
  /\ UNCHANGED <<build, turboHome, flowState, addressSubmissions, contactSubmissions, probe>>

\* A handleInput that cancels superseded lookups, which the code does not:
\* the response of a lookup is dropped unless it is the last one issued.
fetchAddressMatchesResolvedIfLatest(maxMatches) ==
  \E i \in DOMAIN lookups, result \in MatchLists(maxMatches) :
    /\ addressViewModel' =
         IF i = Len(lookups) THEN [addressViewModel EXCEPT !.matches = result]
         ELSE addressViewModel
    /\ lookups' = RemoveAt(lookups, i)
    /\ out' = Observe([Step("fetchAddressMatches resolved", <<>>, <<>>, <<>>)
                 EXCEPT !.origin = lookups[i].query, !.received = <<result>>])
    /\ UNCHANGED <<build, turboHome, flowState, contactViewModel, estimateViewModel,
                   addressSubmissions, contactSubmissions, probe>>

\* handleInput resumed: fetchAddressMatches resolved with a list of matches.
fetchAddressMatchesResolved(maxMatches) ==
  \E i \in DOMAIN lookups, result \in MatchLists(maxMatches) :
    /\ addressViewModel' = [addressViewModel EXCEPT !.matches = result]
    /\ lookups' = RemoveAt(lookups, i)
    /\ out' = Observe([Step("fetchAddressMatches resolved", <<>>, <<>>, <<>>)
                 EXCEPT !.origin = lookups[i].query, !.received = <<result>>])
    /\ UNCHANGED <<build, turboHome, flowState, contactViewModel, estimateViewModel,
                   addressSubmissions, contactSubmissions, probe>>

\* handleInput resumed: fetchAddressMatches threw; the catch block.
fetchAddressMatchesFailed ==
  \E i \in DOMAIN lookups :
    LET r == transition(flowState, "ERROR") IN
    /\ addressViewModel' = [addressViewModel EXCEPT !.errorMessage = AddressLookupError]
    /\ flowState' = Assigned(r, flowState)
    /\ lookups' = RemoveAt(lookups, i)
    /\ out' = Observe([Step("fetchAddressMatches failed", <<"ERROR">>, r.tracked, <<>>)
                 EXCEPT !.threw = r.threw, !.origin = lookups[i].query])
    /\ UNCHANGED <<build, turboHome, contactViewModel, estimateViewModel,
                   addressSubmissions, contactSubmissions, probe>>

\* A slip in handleMatchSelection: the list and the keyboard index are not
\* re-initialised.
MatchSelectedKeepsList(match) ==
  [addressViewModel EXCEPT
     !.selectedMatch = match,
     !.inputValue = Address(match) \o ", " \o Context(match)]

\* The address view-model after handleMatchSelection(match), and the
\* record it tracks.
MatchSelected(match) ==
  [addressViewModel EXCEPT
     !.selectedMatch = match,
     !.inputValue = Address(match) \o ", " \o Context(match),
     !.matches = <<>>,
     !.keyboardNavIndex = -1]

AddressSelectedRecord(match) ==
  trackEvent("Address Selected",
             [address_str |-> Address(match), context_str |-> Context(match),
              regrid_ll_uuid_str |-> match])

\* handleMatchSelection(match), bound to a click on one of the matches shown.
handleMatchSelection ==
  \E k \in DOMAIN addressViewModel.matches :
    LET match == addressViewModel.matches[k] IN
    /\ addressViewModel' = MatchSelected(match)
    /\ out' = Observe(Step("handleMatchSelection", <<>>, AddressSelectedRecord(match), <<>>))
    /\ UNCHANGED <<build, turboHome, flowState, contactViewModel, estimateViewModel,
                   lookups, addressSubmissions, contactSubmissions, probe>>

\* keyboardNavIndex after ArrowUp / ArrowDown.
ArrowUpIndex(index, length) == IF index <= -1 THEN length - 1 ELSE index - 1

ArrowDownIndex(index, length) == IF index >= length - 1 THEN -1 ELSE index + 1

\* handleKeydown(event)
handleKeydown ==
  \E key \in Keys :
    LET index == addressViewModel.keyboardNavIndex
        matches == addressViewModel.matches
        step == Step("handleKeydown " \o key, <<>>, <<>>, <<>>)
    IN
    /\ IF key \notin {"Enter", "ArrowUp", "ArrowDown"}
         THEN /\ out' = Observe(step)
              /\ UNCHANGED addressViewModel
       ELSE IF isSelectedThrows
         THEN \* `this.isSelected` throws
              /\ out' = Observe([step EXCEPT !.threw = TRUE])
              /\ UNCHANGED addressViewModel
       ELSE IF isSelected \/ Len(matches) = 0
         THEN /\ out' = Observe(step)
              /\ UNCHANGED addressViewModel
       ELSE IF key = "Enter" /\ index # -1
         THEN IF index + 1 \in DOMAIN matches
                THEN /\ addressViewModel' = MatchSelected(matches[index + 1])
                     /\ out' = Observe([step EXCEPT !.prevented = TRUE,
                                            !.tracked = AddressSelectedRecord(matches[index + 1])])
                ELSE \* this.matches[index] is undefined: handleMatchSelection
                     \* stores it and throws on `match.address`
                     /\ addressViewModel' = [addressViewModel EXCEPT !.selectedMatch = Undefined]
                     /\ out' = Observe([step EXCEPT !.prevented = TRUE, !.threw = TRUE])
       ELSE IF key = "ArrowUp"
         THEN /\ addressViewModel' =
                   [addressViewModel EXCEPT !.keyboardNavIndex = ArrowUpIndex(index, Len(matches))]
              /\ out' = Observe([step EXCEPT !.prevented = TRUE])
       ELSE IF key = "ArrowDown"
         THEN /\ addressViewModel' =
                   [addressViewModel EXCEPT !.keyboardNavIndex = ArrowDownIndex(index, Len(matches))]
              /\ out' = Observe([step EXCEPT !.prevented = TRUE])
       ELSE /\ out' = Observe([step EXCEPT !.prevented = TRUE])
            /\ UNCHANGED addressViewModel
    /\ UNCHANGED <<build, turboHome, flowState, contactViewModel, estimateViewModel,
                   lookups, addressSubmissions, contactSubmissions, probe>>

\* Whether a completion of the address submission at position i continues a
\* run of that submission that no other step has interrupted since its call.
AloneAddress(i) ==
  /\ out.alone > 0
  /\ out.pending
  /\ out.op \in {"submitAddress", "fetchParcelDetails resolved"}
  /\ i = Len(addressSubmissions)

\* A slip in the SUCCESS tail of submitAddress: it fires SKIP_CONTACT.
AddressSubmissionSkipsContact(state) ==
  LET r == transition(state, "SKIP_CONTACT") IN
  [flowState |-> Assigned(r, state), fired |-> <<"SKIP_CONTACT">>,
   tracked |-> r.tracked \o trackEvent("Address Submission Succeeded", NoProperties),
   errorMessage |-> addressViewModel.errorMessage, threw |-> r.threw]

\* The SUCCESS tail of submitAddress: the transition and its tracking.
AddressSubmissionSucceeded(state) ==
  LET r == transition(state, "SUCCESS") IN
  IF r.threw
    THEN \* caught by the catch block, whose own transition throws again
         [flowState |-> state, fired |-> <<"SUCCESS", "ERROR">>, tracked |-> <<>>,
          errorMessage |-> AddressSubmitError, threw |-> TRUE]
    ELSE [flowState |-> r.value, fired |-> <<"SUCCESS">>,
          tracked |-> r.tracked \o trackEvent("Address Submission Succeeded", NoProperties),
          errorMessage |-> addressViewModel.errorMessage, threw |-> FALSE]

\* A slip in the catch block of submitAddress: the error is shown and
\* tracked, and no event is fired.
AddressSubmissionFailedWithoutEvent(state) ==
  [flowState |-> state, fired |-> <<>>,
   tracked |-> trackEvent("Address Submission Failed",
                          [error_str |-> AddressSubmitError]),
   errorMessage |-> AddressSubmitError, threw |-> FALSE]

\* The catch block of submitAddress.
AddressSubmissionFailed(state) ==
  LET r == transition(state, "ERROR") IN
  [flowState |-> Assigned(r, state), fired |-> <<"ERROR">>,
   tracked |-> IF r.threw THEN <<>>
               ELSE r.tracked \o trackEvent("Address Submission Failed",
                                            [error_str |-> AddressSubmitError]),
   errorMessage |-> AddressSubmitError, threw |-> r.threw]

\* A slip in the debounce of submitAddress: the modal's processing state is
\* forgotten.
addressFormProcessingOutsideModal == flowState = "addressFormProcessing"

\* The debounce condition of submitAddress.
addressFormProcessing ==
  \/ flowState = "addressFormProcessing"
  \/ flowState = "modalAddressFormProcessing"

\* submitAddress(options), up to its first await or to its end.
submitAddress(maxSubmissions) ==
  LET r1 == transition(flowState, "SUBMIT_ADDRESS")
      state1 == Assigned(r1, flowState)
      cleared == [addressViewModel EXCEPT !.errorMessage = ""]
      submitted == r1.tracked \o trackEvent("Address Submitted", NoProperties)
      step == Step("submitAddress", <<"SUBMIT_ADDRESS">>, submitted, <<>>)
      \* the call awaited: fetchParcelDetails(selectedMatch.ll_uuid), of a
      \* match or of {} or fetchEstimateResults(payload)
      argument(pc) == IF pc = "estimate" THEN "payload"
                      ELSE IF isSelected THEN "ll_uuid" ELSE Undefined
      submission(pc) == [pc |-> pc, argument |-> argument(pc),
                         origin |-> Origin(flowState, "default")]
  IN
  /\ IF addressFormProcessing
       THEN /\ out' = Observe(Step("submitAddress", <<>>, <<>>, <<>>))
            /\ UNCHANGED <<flowState, addressViewModel, addressSubmissions>>
     ELSE IF r1.threw
       THEN /\ addressViewModel' = cleared
            /\ out' = Observe([Step("submitAddress", <<"SUBMIT_ADDRESS">>, <<>>, <<>>)
                         EXCEPT !.threw = TRUE])
            /\ UNCHANGED <<flowState, addressSubmissions>>
     ELSE IF addressViewModel.selectedMatch = Undefined
       THEN \* the properties of "Address Submitted" read selectedMatch.address:
            \* a TypeError outside the try block
            /\ addressViewModel' = cleared
            /\ flowState' = state1
            /\ out' = Observe([step EXCEPT !.tracked = r1.tracked, !.threw = TRUE])
            /\ UNCHANGED addressSubmissions
     ELSE IF hasParcelDetails /\ hasResults /\ contactViewModel.isSubmitted
       THEN LET r2 == transition(state1, "SKIP_CONTACT") IN
            IF r2.threw
              THEN LET f == AddressSubmissionFailed(state1) IN
                   /\ addressViewModel' = [cleared EXCEPT !.errorMessage = f.errorMessage]
                   /\ flowState' = f.flowState
                   /\ out' = Observe([step EXCEPT !.fired = @ \o <<"SKIP_CONTACT">> \o f.fired,
                                          !.tracked = @ \o f.tracked,
                                          !.threw = f.threw])
                   /\ UNCHANGED addressSubmissions
              ELSE /\ addressViewModel' = cleared
                   /\ flowState' = r2.value
                   /\ out' = Observe([step EXCEPT !.fired = @ \o <<"SKIP_CONTACT">>,
                                          !.tracked = @ \o r2.tracked,
                                          !.origin = Origin(flowState, "default"),
                                          !.alone = 1])
                   /\ UNCHANGED addressSubmissions
     ELSE IF ~hasParcelDetails
       THEN /\ Len(addressSubmissions) < maxSubmissions
            /\ addressViewModel' = cleared
            /\ flowState' = state1
            /\ addressSubmissions' = Append(addressSubmissions, submission("parcel"))
            /\ out' = Observe([step EXCEPT !.issued = <<"fetchParcelDetails">>,
                                   !.origin = Origin(flowState, "default"),
                                   !.alone = 1, !.pending = TRUE])
     ELSE IF ~hasResults
       THEN /\ Len(addressSubmissions) < maxSubmissions
            /\ addressViewModel' = cleared
            /\ flowState' = state1
            /\ addressSubmissions' = Append(addressSubmissions, submission("estimate"))
            /\ out' = Observe([step EXCEPT !.issued = <<"fetchEstimateResults">>,
                                   !.origin = Origin(flowState, "default"),
                                   !.alone = 1, !.pending = TRUE])
     ELSE LET s == AddressSubmissionSucceeded(state1) IN
          /\ addressViewModel' = [cleared EXCEPT !.errorMessage =
                                    IF s.threw THEN s.errorMessage ELSE ""]
          /\ flowState' = s.flowState
          /\ out' = Observe([step EXCEPT !.fired = @ \o s.fired, !.tracked = @ \o s.tracked,
                                 !.threw = s.threw, !.origin = Origin(flowState, "default"),
                                 !.alone = 1])
          /\ UNCHANGED addressSubmissions
  /\ UNCHANGED <<build, turboHome, contactViewModel, estimateViewModel, lookups,
                 contactSubmissions, probe>>

\* A slip in submitAddress: SUCCESS is fired as soon as the parcel is stored,
\* while the estimate call it has just issued is still awaited.
fetchParcelDetailsResolvedThenSuccess ==
  \E i \in DOMAIN addressSubmissions, parcel \in ParcelResponses :
    LET sub == addressSubmissions[i]
        s == AddressSubmissionSucceeded(flowState)
        step == [Step("fetchParcelDetails resolved", s.fired, s.tracked, <<>>)
                   EXCEPT !.origin = sub.origin, !.alone = Run(AloneAddress(i)),
                          !.threw = s.threw]
        stored == [addressViewModel EXCEPT !.parcelDetails = parcel,
                                           !.errorMessage = s.errorMessage]
    IN
    /\ sub.pc = "parcel"
    /\ addressViewModel' = stored
    /\ flowState' = s.flowState
    /\ IF ~hasResults
         THEN /\ addressSubmissions' = [addressSubmissions EXCEPT ![i].pc = "estimate", ![i].argument = "payload"]
              /\ out' = Observe([step EXCEPT !.issued = <<"fetchEstimateResults">>, !.pending = TRUE])
         ELSE /\ addressSubmissions' = RemoveAt(addressSubmissions, i)
              /\ out' = Observe(step)
    /\ UNCHANGED <<build, turboHome, contactViewModel, estimateViewModel, lookups,
                   contactSubmissions, probe>>

\* submitAddress resumed: fetchParcelDetails(id) resolved.  The parcel the
\* service answered is stored whatever the id of the call, `undefined`
\* (nothing was selected) included.
fetchParcelDetailsResolved ==
  \E i \in DOMAIN addressSubmissions, parcel \in ParcelResponses :
    LET sub == addressSubmissions[i]
        step == [Step("fetchParcelDetails resolved", <<>>, <<>>, <<>>)
                   EXCEPT !.origin = sub.origin, !.alone = Run(AloneAddress(i))]
        stored == [addressViewModel EXCEPT !.parcelDetails = parcel]
    IN
    /\ sub.pc = "parcel"
    /\ IF ~hasResults
         THEN /\ addressViewModel' = stored
              /\ addressSubmissions' = [addressSubmissions EXCEPT ![i].pc = "estimate", ![i].argument = "payload"]
              /\ out' = Observe([step EXCEPT !.issued = <<"fetchEstimateResults">>, !.pending = TRUE])
              /\ UNCHANGED flowState
         ELSE LET s == AddressSubmissionSucceeded(flowState) IN
              /\ addressViewModel' = [stored EXCEPT !.errorMessage = s.errorMessage]
              /\ flowState' = s.flowState
              /\ addressSubmissions' = RemoveAt(addressSubmissions, i)
              /\ out' = Observe([step EXCEPT !.fired = s.fired, !.tracked = s.tracked,
                                     !.threw = s.threw])
    /\ UNCHANGED <<build, turboHome, contactViewModel, estimateViewModel, lookups,
                   contactSubmissions, probe>>

\* submitAddress resumed: fetchEstimateResults resolved.
fetchEstimateResultsResolved ==
  \E i \in DOMAIN addressSubmissions, estimateResults \in EstimateResponses :
    LET sub == addressSubmissions[i]
        s == AddressSubmissionSucceeded(flowState)
    IN
    /\ sub.pc = "estimate"
    /\ estimateViewModel' = [jurisdiction |-> estimateResults.jurisdiction,
                             estimate |-> estimateResults.estimate]
    /\ addressViewModel' = [addressViewModel EXCEPT !.errorMessage = s.errorMessage]
    /\ flowState' = s.flowState
    /\ addressSubmissions' = RemoveAt(addressSubmissions, i)
    /\ out' = Observe([Step("fetchEstimateResults resolved", s.fired, s.tracked, <<>>)
                 EXCEPT !.origin = sub.origin, !.alone = Run(AloneAddress(i)), !.threw = s.threw])
    /\ UNCHANGED <<build, turboHome, contactViewModel, lookups, contactSubmissions, probe>>

\* submitAddress resumed: the awaited call threw; the catch block.
addressSubmissionCallFailed ==
  \E i \in DOMAIN addressSubmissions :
    LET sub == addressSubmissions[i]
        f == AddressSubmissionFailed(flowState)
        op == IF sub.pc = "parcel" THEN "fetchParcelDetails failed"
              ELSE "fetchEstimateResults failed"
    IN
    /\ addressViewModel' = [addressViewModel EXCEPT !.errorMessage = f.errorMessage]
    /\ flowState' = f.flowState
    /\ addressSubmissions' = RemoveAt(addressSubmissions, i)
    /\ out' = Observe([Step(op, f.fired, f.tracked, <<>>)
                 EXCEPT !.origin = sub.origin, !.alone = Run(AloneAddress(i)), !.threw = f.threw])
    /\ UNCHANGED <<build, turboHome, contactViewModel, estimateViewModel, lookups,
                   contactSubmissions, probe>>

(***************************************************************************)
(* contactViewModel.                                                       *)
(***************************************************************************)
AloneContact(i) ==
  /\ out.alone > 0
  /\ out.pending
  /\ out.op \in {"submitContact", "analysis timer", "createLead resolved"}
  /\ i = Len(contactSubmissions)

\* The statements of submitContact after its join.
ContactSubmissionSucceeded(state) ==
  LET r == transition(state, "SUCCESS") IN
  IF r.threw
    THEN [flowState |-> state, fired |-> <<"SUCCESS", "ERROR">>, tracked |-> <<>>,
          errorMessage |-> ContactSubmitError, threw |-> TRUE]
    ELSE [flowState |-> r.value, fired |-> <<"SUCCESS">>,
          tracked |-> r.tracked \o trackEvent("Contact Submission Succeeded", NoProperties),
          errorMessage |-> contactViewModel.errorMessage, threw |-> FALSE]

\* The user types into a field of the contact form: the field's x-model
\* binding writes the text into the store; no handler runs.  The fields
\* are filled in the order of `edits`.
contactEdited(edits) ==
  \E k \in DOMAIN edits :
    /\ contactViewModel[edits[k].field] # edits[k].text
    /\ \A j \in 1..(k - 1) : contactViewModel[edits[j].field] = edits[j].text
    /\ contactViewModel' = [contactViewModel EXCEPT ![edits[k].field] = edits[k].text]
    /\ out' = Observe(Step("contact input", <<>>, <<>>, <<>>))
    /\ UNCHANGED <<build, turboHome, flowState, addressViewModel, estimateViewModel,
                   lookups, addressSubmissions, contactSubmissions, probe>>

\* The catch block of submitContact.
ContactSubmissionFailed(state) ==
  LET r == transition(state, "ERROR") IN
  [flowState |-> Assigned(r, state), fired |-> <<"ERROR">>,
   tracked |-> IF r.threw THEN <<>>
               ELSE r.tracked \o trackEvent("Contact Submission Failed",
                                            [error_str |-> ContactSubmitError]),
   errorMessage |-> ContactSubmitError, threw |-> r.threw]

\* A slip in the debounce of submitContact: the state's name is mistyped.
contactFormProcessingMistyped == flowState = "contactProcessing"

\* The debounce condition of submitContact.
contactFormProcessing == flowState = "contactFormProcessing"

\* submitContact(options), up to its await of Promise.all: the first analysis
\* step is shown and its timer set, and createLead is called.
submitContact(maxSubmissions) ==
  LET r1 == transition(flowState, "SUBMIT_CONTACT")
      submission == [ticks |-> 0, lead |-> "pending", origin |-> Origin(flowState, "contactForm")]
  IN
  /\ IF contactFormProcessing
       THEN /\ out' = Observe(Step("submitContact", <<>>, <<>>, <<>>))
            /\ UNCHANGED <<flowState, contactViewModel, contactSubmissions>>
     ELSE IF r1.threw
       THEN /\ contactViewModel' = [contactViewModel EXCEPT !.errorMessage = ""]
            /\ out' = Observe([Step("submitContact", <<"SUBMIT_CONTACT">>, <<>>, <<>>)
                         EXCEPT !.threw = TRUE])
            /\ UNCHANGED <<flowState, contactSubmissions>>
       ELSE /\ Len(contactSubmissions) < maxSubmissions
            /\ contactViewModel' = [contactViewModel EXCEPT
                                      !.errorMessage = "",
                                      !.lotAnalysisStep = analysisSteps[1]]
            /\ flowState' = r1.value
            /\ contactSubmissions' = Append(contactSubmissions, submission)
            /\ out' = Observe([Step("submitContact", <<"SUBMIT_CONTACT">>,
                            r1.tracked \o trackEvent("Contact Submitted", NoProperties),
                            <<"sequenceLotAnalysisSteps", "createLead">>)
                         EXCEPT !.origin = Origin(flowState, "contactForm"), !.alone = 1,
                                !.pending = TRUE])
  /\ UNCHANGED <<build, turboHome, addressViewModel, estimateViewModel, lookups,
                 addressSubmissions, probe>>

\* A 1.5 s timer of sequenceLotAnalysisSteps fires: the next step is shown, or
\* after the last step the sequence resolves; if createLead has resolved too,
\* the join is passed.  A sequence started earlier is ahead of a later one.
analysisTimer ==
  \E i \in DOMAIN contactSubmissions :
    LET sub == contactSubmissions[i]
        last == sub.ticks + 1 = Len(analysisSteps)
        step == [Step("analysis timer", <<>>, <<>>, <<>>)
                   EXCEPT !.origin = sub.origin, !.alone = Run(AloneContact(i))]
        s == ContactSubmissionSucceeded(flowState)
    IN
    /\ sub.ticks < Len(analysisSteps)
    /\ \A j \in 1..(i - 1) : contactSubmissions[j].ticks > sub.ticks
    /\ IF ~last
         THEN /\ contactViewModel' =
                   [contactViewModel EXCEPT !.lotAnalysisStep = analysisSteps[sub.ticks + 2]]
              /\ contactSubmissions' = [contactSubmissions EXCEPT ![i].ticks = @ + 1]
              /\ out' = Observe([step EXCEPT !.pending = TRUE])
              /\ UNCHANGED flowState
       ELSE IF sub.lead = "pending"
         THEN /\ contactSubmissions' = [contactSubmissions EXCEPT ![i].ticks = @ + 1]
              /\ out' = Observe([step EXCEPT !.pending = TRUE])
              /\ UNCHANGED <<flowState, contactViewModel>>
       ELSE IF sub.lead = "failed"
         THEN /\ contactSubmissions' = RemoveAt(contactSubmissions, i)
              /\ out' = Observe(step)
              /\ UNCHANGED <<flowState, contactViewModel>>
       ELSE /\ contactViewModel' =
                 [contactViewModel EXCEPT !.isSubmitted = TRUE,
                                          !.errorMessage = s.errorMessage]
            /\ flowState' = s.flowState
            /\ contactSubmissions' = RemoveAt(contactSubmissions, i)
            /\ out' = Observe([step EXCEPT !.fired = s.fired, !.tracked = s.tracked,
                                   !.threw = s.threw])
    /\ UNCHANGED <<build, turboHome, addressViewModel, estimateViewModel, lookups,
                   addressSubmissions, probe>>

\* createLead resolved: the join is passed if the analysis sequence is over,
\* and is still awaited otherwise.
createLeadResolved ==
  \E i \in DOMAIN contactSubmissions :
    LET sub == contactSubmissions[i]
        step == [Step("createLead resolved", <<>>, <<>>, <<>>)
                   EXCEPT !.origin = sub.origin, !.alone = Run(AloneContact(i))]
        s == ContactSubmissionSucceeded(flowState)
    IN
    /\ sub.lead = "pending"
    /\ IF sub.ticks < Len(analysisSteps)
         THEN /\ contactSubmissions' = [contactSubmissions EXCEPT ![i].lead = "ok"]
              /\ out' = Observe([step EXCEPT !.pending = TRUE])
              /\ UNCHANGED <<flowState, contactViewModel>>
         ELSE /\ contactViewModel' =
                   [contactViewModel EXCEPT !.isSubmitted = TRUE,
                                            !.errorMessage = s.errorMessage]
              /\ flowState' = s.flowState
              /\ contactSubmissions' = RemoveAt(contactSubmissions, i)
              /\ out' = Observe([step EXCEPT !.fired = s.fired, !.tracked = s.tracked,
                                     !.threw = s.threw])
    /\ UNCHANGED <<build, turboHome, addressViewModel, estimateViewModel, lookups,
                   addressSubmissions, probe>>

\* A slip in the catch block of submitContact: the contact is marked as
\* submitted though its lead was not created.
createLeadFailedMarksSubmitted ==
  \E i \in DOMAIN contactSubmissions :
    LET sub == contactSubmissions[i]
        f == ContactSubmissionFailed(flowState)
    IN
    /\ sub.lead = "pending"
    /\ contactViewModel' = [contactViewModel EXCEPT !.errorMessage = f.errorMessage,
                                                    !.isSubmitted = TRUE]
    /\ flowState' = f.flowState
    /\ contactSubmissions' =
         IF sub.ticks < Len(analysisSteps)
           THEN [contactSubmissions EXCEPT ![i].lead = "failed"]
           ELSE RemoveAt(contactSubmissions, i)
    /\ out' = Observe([Step("createLead failed", f.fired, f.tracked, <<>>)
                 EXCEPT !.origin = sub.origin, !.alone = Run(AloneContact(i)), !.threw = f.threw,
                        !.pending = sub.ticks < Len(analysisSteps)])
    /\ UNCHANGED <<build, turboHome, addressViewModel, estimateViewModel, lookups,
                   addressSubmissions, probe>>

\* createLead threw: Promise.all rejects at once and the catch block runs;
\* the timers of the analysis sequence keep running.
createLeadFailed ==
  \E i \in DOMAIN contactSubmissions :
    LET sub == contactSubmissions[i]
        f == ContactSubmissionFailed(flowState)
    IN
    /\ sub.lead = "pending"
    /\ contactViewModel' = [contactViewModel EXCEPT !.errorMessage = f.errorMessage]
    /\ flowState' = f.flowState
    /\ contactSubmissions' =
         IF sub.ticks < Len(analysisSteps)
           THEN [contactSubmissions EXCEPT ![i].lead = "failed"]
           ELSE RemoveAt(contactSubmissions, i)
    /\ out' = Observe([Step("createLead failed", f.fired, f.tracked, <<>>)
                 EXCEPT !.origin = sub.origin, !.alone = Run(AloneContact(i)), !.threw = f.threw,
                        !.pending = sub.ticks < Len(analysisSteps)])
    /\ UNCHANGED <<build, turboHome, addressViewModel, estimateViewModel, lookups,
                   addressSubmissions, probe>>

(***************************************************************************)
(* estimateViewModel: the two click handlers.                              *)
(***************************************************************************)
\* A slip in the tracked context: the last name is copied from the first.
FlowContextLastNameFromFirst ==
  [parcelDetails |-> addressViewModel.parcelDetails,
   jurisdiction_status_str |-> estimateViewModel.jurisdiction.status,
   estimate |-> estimateViewModel.estimate,
   contact_first_name_str |-> contactViewModel.firstName,
   contact_last_name_str |-> contactViewModel.firstName,
   contact_email_str |-> contactViewModel.email,
   contact_phone_str |-> contactViewModel.phone,
   contact_desired_timeline_str |-> contactViewModel.desiredTimeline]

\* The context the click handlers track: the parcel (address_str to
\* jurisdiction_str are its fields), the jurisdiction status, the estimate
\* (estimate_low_real, estimate_high_real) and the five contact fields.
FlowContext ==
  [parcelDetails |-> addressViewModel.parcelDetails,
   jurisdiction_status_str |-> estimateViewModel.jurisdiction.status,
   estimate |-> estimateViewModel.estimate,
   contact_first_name_str |-> contactViewModel.firstName,
   contact_last_name_str |-> contactViewModel.lastName,
   contact_email_str |-> contactViewModel.email,
   contact_phone_str |-> contactViewModel.phone,
   contact_desired_timeline_str |-> contactViewModel.desiredTimeline]

\* A handler that fires one event and then tracks one record.
FireAndTrack(op, event, eventName, eventProperties) ==
  LET r == transition(flowState, event) IN
  /\ flowState' = Assigned(r, flowState)
  /\ out' = Observe([Step(op, <<event>>,
                  IF r.threw THEN <<>> ELSE r.tracked \o trackEvent(eventName, eventProperties),
                  <<>>)
               EXCEPT !.threw = r.threw])

handleScheduleConsultationClick ==
  /\ FireAndTrack("handleScheduleConsultationClick", "SCHEDULE",
                  "Schedule Consultation Clicked", FlowContext)
  /\ UNCHANGED <<build, turboHome, addressViewModel, contactViewModel, estimateViewModel,
                 lookups, addressSubmissions, contactSubmissions, probe>>

handleRequestCommunityClick ==
  /\ FireAndTrack("handleRequestCommunityClick", "REQUEST_COMMUNITY",
                  "Community Requested", FlowContext)
  /\ UNCHANGED <<build, turboHome, addressViewModel, contactViewModel, estimateViewModel,
                 lookups, addressSubmissions, contactSubmissions, probe>>

(***************************************************************************)
(* modalHelpers.                                                           *)
(***************************************************************************)
handleModalFlowStart ==
  /\ FireAndTrack("handleModalFlowStart", "START_MODAL_FLOW",
                  "Modal Get Offer Flow Opened", NoProperties)
  /\ UNCHANGED <<build, turboHome, addressViewModel, contactViewModel, estimateViewModel,
                 lookups, addressSubmissions, contactSubmissions, probe>>

\* handleModalClose of src/index.js: EXIT is fired whatever the state.
handleModalClose ==
  /\ build = "index.js"
  /\ FireAndTrack("handleModalClose", "EXIT", "Get Offer Modal Closed", NoProperties)
  /\ UNCHANGED <<build, turboHome, addressViewModel, contactViewModel, estimateViewModel,
                 lookups, addressSubmissions, contactSubmissions, probe>>

\* A slip in the exit policy: the user is asked, and the answer is dropped.
handleModalCloseIgnoringAnswer ==
  \E hasAnyContactDetails \in BOOLEAN, confirmed \in BOOLEAN :
    LET asks == flowState = "contactForm" /\ hasAnyContactDetails
        asked == IF asks THEN <<"confirm">> ELSE <<>>
        received == IF asks THEN <<hasAnyContactDetails, confirmed>>
                    ELSE IF flowState = "contactForm" THEN <<hasAnyContactDetails>>
                    ELSE <<>>
        r == transition(flowState, "EXIT")
    IN
    /\ build = "part_000"
    /\ asks \/ confirmed
    /\ flowState = "contactForm" \/ hasAnyContactDetails
    /\ IF flowState # "contactFormProcessing"
         THEN /\ flowState' = Assigned(r, flowState)
              /\ out' = Observe([Step("handleModalClose", <<"EXIT">>,
                              IF r.threw THEN <<>>
                              ELSE r.tracked \o trackEvent("Get Offer Modal Closed",
                                                           NoProperties),
                              asked)
                           EXCEPT !.threw = r.threw, !.received = received])
         ELSE /\ out' = Observe([Step("handleModalClose", <<>>, <<>>, asked)
                               EXCEPT !.received = received])
              /\ UNCHANGED flowState
    /\ UNCHANGED <<build, turboHome, addressViewModel, contactViewModel, estimateViewModel,
                   lookups, addressSubmissions, contactSubmissions, probe>>

\* handleModalClose of src/unnamed/part_000: the exit policy.  The getter
\* contactViewModel.hasAnyContactDetails is not defined in src/: what it
\* returns when the handler reads it (whether any contact field is
\* populated) is an input, and `confirmed` is the user's answer to
\* confirm(...).  The getter is read in contactForm only, and the user is
\* asked only if it is true there.
handleModalCloseWithPolicy ==
  \E hasAnyContactDetails \in BOOLEAN, confirmed \in BOOLEAN :
    LET asks == flowState = "contactForm" /\ hasAnyContactDetails
        proceedWithExit ==
          IF flowState = "contactFormProcessing" THEN FALSE
          ELSE IF asks THEN confirmed
          ELSE TRUE
        asked == IF asks THEN <<"confirm">> ELSE <<>>
        received == IF asks THEN <<hasAnyContactDetails, confirmed>>
                    ELSE IF flowState = "contactForm" THEN <<hasAnyContactDetails>>
                    ELSE <<>>
    IN
    /\ build = "part_000"
    /\ asks \/ confirmed
    /\ flowState = "contactForm" \/ hasAnyContactDetails
    /\ IF proceedWithExit
         THEN LET r == transition(flowState, "EXIT") IN
              /\ flowState' = Assigned(r, flowState)
              /\ out' = Observe([Step("handleModalClose", <<"EXIT">>,
                              IF r.threw THEN <<>>
                              ELSE r.tracked \o trackEvent("Get Offer Modal Closed",
                                                           NoProperties),
                              asked)
                           EXCEPT !.threw = r.threw, !.received = received])
         ELSE /\ out' = Observe([Step("handleModalClose", <<>>, <<>>, asked)
                               EXCEPT !.received = received])
              /\ UNCHANGED flowState
    /\ UNCHANGED <<build, turboHome, addressViewModel, contactViewModel, estimateViewModel,
                   lookups, addressSubmissions, contactSubmissions, probe>>

(***************************************************************************)
(* The whole program: every handler and every completion, in any order.    *)
(* The steps are not observed, so the records, which alone read the fields *)
(* of the contact form, are not either: the form stays as constructed.     *)
(***************************************************************************)
Next ==
  \/ inputEdited(Queries)
  \/ handleInput(MaxLookups)
  \/ fetchAddressMatchesResolved(MaxFlowMatches)
  \/ fetchAddressMatchesFailed
  \/ handleMatchSelection
  \/ handleKeydown
  \/ submitAddress(MaxAddressSubmissions)
  \/ fetchParcelDetailsResolved
  \/ fetchEstimateResultsResolved
  \/ addressSubmissionCallFailed
  \/ submitContact(MaxContactSubmissions)
  \/ analysisTimer
  \/ createLeadResolved
  \/ createLeadFailed
  \/ handleScheduleConsultationClick
  \/ handleRequestCommunityClick
  \/ handleModalFlowStart
  \/ handleModalClose
  \/ handleModalCloseWithPolicy

Spec == Init /\ [][Next]_vars

(***************************************************************************)
(* The address form, observed: the typeahead by mouse, submissions that    *)
(* may overlap, services that may fail, the modal opened and closed.       *)
(***************************************************************************)
NextAddress ==
  \/ inputEdited(Queries)
  \/ handleInput(MaxLookups)
  \/ fetchAddressMatchesResolved(MaxMatches)
  \/ fetchAddressMatchesFailed
  \/ handleMatchSelection
  \/ submitAddress(MaxOverlappingAddressSubmissions)
  \/ fetchParcelDetailsResolved
  \/ fetchEstimateResultsResolved
  \/ addressSubmissionCallFailed
  \/ handleModalFlowStart
  \/ handleModalClose
  \/ handleModalCloseWithPolicy

SpecAddress == InitObserved /\ [][NextAddress]_vars

(***************************************************************************)
(* A pass through the flow and back, observed, in src/index.js: typeahead  *)
(* by mouse and keyboard, address and contact submission with services     *)
(* that answer, the modal closed.  No submission reads the text of the     *)
(* field: here the field holds what the handlers wrote into it, and        *)
(* handleInput looks that text up.                                         *)
(***************************************************************************)
NextPass ==
  \/ handleInput(MaxLookups)
  \/ fetchAddressMatchesResolved(MaxMatches)
  \/ handleMatchSelection
  \/ handleKeydown
  \/ submitAddress(MaxAddressSubmissions)
  \/ fetchParcelDetailsResolved
  \/ fetchEstimateResultsResolved
  \/ submitContact(MaxContactSubmissions)
  \/ analysisTimer
  \/ createLeadResolved
  \/ handleModalClose

\* The build of index.js, its steps observed.
InitPass ==
  /\ build = "index.js"
  /\ Constructed
  /\ out = Step("init", <<>>, <<>>, <<>>)

SpecPass == InitPass /\ [][NextPass]_vars

(***************************************************************************)
(* The typeahead while the flow goes on, observed, in src/index.js: the    *)
(* field edited, the debounced handleInput, matches chosen by mouse and    *)
(* keyboard, address and contact submission with services that answer.     *)
(***************************************************************************)
NextSelection ==
  \/ inputEdited(Queries)
  \/ handleInput(MaxLookups)
  \/ fetchAddressMatchesResolved(MaxMatches)
  \/ handleMatchSelection
  \/ handleKeydown
  \/ submitAddress(MaxAddressSubmissions)
  \/ fetchParcelDetailsResolved
  \/ fetchEstimateResultsResolved
  \/ submitContact(MaxContactSubmissions)
  \/ analysisTimer
  \/ createLeadResolved

SpecSelection == InitPass /\ [][NextSelection]_vars

(***************************************************************************)
(* The contact form, observed, from the state the flow is in when the      *)
(* submission of a selected address has succeeded: contact submissions     *)
(* that may overlap, a lead service that may fail, the modal closed and    *)
(* opened, the stored address submitted again.                             *)
(***************************************************************************)
NextContact ==
  \/ submitAddress(MaxAddressSubmissions)
  \/ submitContact(MaxOverlappingContactSubmissions)
  \/ analysisTimer
  \/ createLeadResolved
  \/ createLeadFailed
  \/ handleModalFlowStart
  \/ handleModalClose
  \/ handleModalCloseWithPolicy

SpecContact == InitContactForm /\ [][NextContact]_vars

(***************************************************************************)
(* The typeahead alone, observed: lists of up to MaxShownMatches matches,  *)
(* walked by keyboard and selected by keyboard or mouse.                   *)
(***************************************************************************)
NextKeyboard ==
  \/ inputEdited(Queries)
  \/ handleInput(MaxLookups)
  \/ fetchAddressMatchesResolved(MaxShownMatches)
  \/ handleMatchSelection
  \/ handleKeydown

SpecKeyboard == InitObserved /\ [][NextKeyboard]_vars

(***************************************************************************)
(* The typeahead with lookups that overlap, observed: two texts typed one  *)
(* after the other, up to MaxOverlappingLookups lookups in flight,         *)
(* resolving in any order.                                                 *)
(***************************************************************************)
NextTypeahead ==
  \/ inputEdited(SuccessiveQueries)
  \/ handleInput(MaxOverlappingLookups)
  \/ fetchAddressMatchesResolved(MaxMatches)
  \/ handleMatchSelection

SpecTypeahead == InitObserved /\ [][NextTypeahead]_vars

(***************************************************************************)
(* Submissions whose calls may fail, observed, in src/index.js: the        *)
(* typeahead by mouse, one address and one contact submission at a time,   *)
(* services that answer or fail, the modal opened.                         *)
(***************************************************************************)
NextRetry ==
  \/ inputEdited(Queries)
  \/ handleInput(MaxLookups)
  \/ fetchAddressMatchesResolved(MaxFlowMatches)
  \/ handleMatchSelection
  \/ submitAddress(MaxAddressSubmissions)
  \/ fetchParcelDetailsResolved
  \/ fetchEstimateResultsResolved
  \/ addressSubmissionCallFailed
  \/ submitContact(MaxContactSubmissions)
  \/ analysisTimer
  \/ createLeadResolved
  \/ createLeadFailed
  \/ handleModalFlowStart

SpecRetry == InitPass /\ [][NextRetry]_vars

(***************************************************************************)
(* The whole flow of src/index.js with services that answer, observed: one *)
(* address and one contact submission at a time, the contact form filled   *)
(* in, the two buttons of the estimate and the modal's close button.  The  *)
(* address field holds what the handlers wrote into it.                    *)
(***************************************************************************)
NextEstimate ==
  \/ handleInput(MaxLookups)
  \/ fetchAddressMatchesResolved(MaxFlowMatches)
  \/ handleMatchSelection
  \/ submitAddress(MaxAddressSubmissions)
  \/ fetchParcelDetailsResolved
  \/ fetchEstimateResultsResolved
  \/ contactEdited(ContactEdits)
  \/ submitContact(MaxContactSubmissions)
  \/ analysisTimer
  \/ createLeadResolved
  \/ handleScheduleConsultationClick
  \/ handleRequestCommunityClick
  \/ handleModalClose

SpecEstimate == InitPass /\ [][NextEstimate]_vars

(***************************************************************************)
(* The TurboHome page, observed: initStores and initExperiments, then the  *)
(* modal's handlers and the popup's timer.                                 *)
(***************************************************************************)
Variations == {"guides", "discount-plus-1500"}

\* The arguments the page's buttons pass to handleModalFlowStart.
FlowStartTransitions == {Undefined, "GET_STARTED", "GET_DEMO"}

CallsToAction == {Null, "hero", "footer"}

\* modal.isOpen of createFlowUIHelpers.
thIsOpen ==
  \/ turboHome.value = "modalGetStartedForm"
  \/ turboHome.value = "modalGetDemoForm"

\* initStores and initExperiments: the popup is scheduled only when the flow
\* starts in 'default'.
InitTurboHome ==
  /\ build = "th-home.js"
  /\ flowState = defaultState
  /\ addressViewModel =
       [inputValue |-> "", matches |-> <<>>, keyboardNavIndex |-> -1,
        selectedMatch |-> EmptyObject, parcelDetails |-> EmptyObject,
        errorMessage |-> ""]
  /\ contactViewModel =
       [firstName |-> "", lastName |-> "", email |-> "", phone |-> "",
        desiredTimeline |-> "", errorMessage |-> "", isSubmitted |-> FALSE,
        lotAnalysisStep |-> "Checking..."]
  /\ estimateViewModel = estimateViewModelInit
  /\ lookups = <<>>
  /\ addressSubmissions = <<>>
  /\ contactSubmissions = <<>>
  /\ probe = NoProbe
  /\ \E getStartedURLParam \in GetStartedURLParams, variation \in Variations :
       LET value == getStartedFlowState(getStartedURLParam)
           includeInterruptorPopupExperiment == value = "default"
       IN
       /\ turboHome =
            [getStartedURLParam |-> getStartedURLParam, value |-> value,
             popupTimer |-> IF includeInterruptorPopupExperiment
                              THEN "scheduled" ELSE "none",
             variation |-> IF includeInterruptorPopupExperiment
                             THEN variation ELSE "none"]
       /\ out = Step("init", <<>>,
                     IF includeInterruptorPopupExperiment
                       THEN trackEvent("Interruptor Popup Experiment Set", NoProperties)
                            \o trackEvent("Interruptor Popup Scheduled", NoProperties)
                       ELSE <<>>,
                     <<>>)

\* modal.handleModalFlowStart(transition = 'GET_STARTED', cta = null).
thHandleModalFlowStart ==
  \E given \in FlowStartTransitions, cta \in CallsToAction :
    LET event == IF given = Undefined THEN "GET_STARTED" ELSE given
        r == thTransition(turboHome.value, event)
        transitionEvent == IF event = "GET_STARTED" THEN "Get Started Clicked"
                           ELSE "Get Demo Clicked"
        eventProperties == IF cta # Null THEN [cta_str |-> cta] ELSE NoProperties
    IN
    /\ turboHome' = [turboHome EXCEPT !.value = r.value]
    /\ out' = [Step("handleModalFlowStart", <<event>>,
                    IF r.threw THEN <<>>
                    ELSE r.tracked \o trackEvent(transitionEvent, eventProperties),
                    <<>>)
                 EXCEPT !.threw = r.threw, !.origin = turboHome.value]
    /\ UNCHANGED <<build, flowState, addressViewModel, contactViewModel,
                   estimateViewModel, lookups, addressSubmissions,
                   contactSubmissions, probe>>

\* modal.handleModalClose().
thHandleModalClose ==
  LET r == thTransition(turboHome.value, "EXIT") IN
  /\ turboHome' = [turboHome EXCEPT !.value = r.value]
  /\ out' = [Step("handleModalClose", <<"EXIT">>,
                  IF r.threw THEN <<>>
                  ELSE r.tracked \o trackEvent("Modal Closed", NoProperties),
                  <<>>)
               EXCEPT !.threw = r.threw, !.origin = turboHome.value]
  /\ UNCHANGED <<build, flowState, addressViewModel, contactViewModel,
                 estimateViewModel, lookups, addressSubmissions,
                 contactSubmissions, probe>>

\* A slip in the timer's callback: it assigns the popup's state instead of
\* sending the event to the flow state.
showInterruptorPopupAssigned ==
  /\ turboHome.popupTimer = "scheduled"
  /\ turboHome' = [turboHome EXCEPT !.value = "interruptorPopup", !.popupTimer = "fired"]
  /\ out' = [Step("interruptor popup timer", <<"SHOW_INTERRUPTOR_POPUP">>, <<>>, <<>>)
               EXCEPT !.origin = turboHome.value]
  /\ UNCHANGED <<build, flowState, addressViewModel, contactViewModel,
                 estimateViewModel, lookups, addressSubmissions,
                 contactSubmissions, probe>>

\* The callback of initExperiments' setTimeout, ten seconds after the load.
showInterruptorPopup ==
  LET r == thTransition(turboHome.value, "SHOW_INTERRUPTOR_POPUP") IN
  /\ turboHome.popupTimer = "scheduled"
  /\ turboHome' = [turboHome EXCEPT !.value = r.value, !.popupTimer = "fired"]
  /\ out' = [Step("interruptor popup timer", <<"SHOW_INTERRUPTOR_POPUP">>,
                  r.tracked, <<>>)
               EXCEPT !.threw = r.threw, !.origin = turboHome.value]
  /\ UNCHANGED <<build, flowState, addressViewModel, contactViewModel,
                 estimateViewModel, lookups, addressSubmissions,
                 contactSubmissions, probe>>

NextTurboHome ==
  \/ thHandleModalFlowStart
  \/ thHandleModalClose
  \/ showInterruptorPopup

SpecTurboHome == InitTurboHome /\ [][NextTurboHome]_vars

(***************************************************************************)
(* Address submissions abandoned with the modal's close button, observed,  *)
(* in src/index.js: up to MaxOverlappingAddressSubmissions submissions     *)
(* awaiting their calls, the flow leaving a processing state only by EXIT  *)
(* or by a completion.                                                     *)
(***************************************************************************)
NextAbandon ==
  \/ inputEdited(Queries)
  \/ handleInput(MaxLookups)
  \/ fetchAddressMatchesResolved(MaxMatches)
  \/ handleMatchSelection
  \/ submitAddress(MaxOverlappingAddressSubmissions)
  \/ fetchParcelDetailsResolved
  \/ fetchEstimateResultsResolved
  \/ addressSubmissionCallFailed
  \/ handleModalFlowStart
  \/ handleModalClose

SpecAbandon == InitPass /\ [][NextAbandon]_vars

(***************************************************************************)
(* transition called directly, as the page's directives can call it, with  *)
(* any state and any event.                                                *)
(***************************************************************************)
ProbeStates == States \cup ObjectPrototypeKeys \cup {"unknownState", Undefined}

ProbeEvents == Events \cup ObjectPrototypeKeys \cup {"UNKNOWN_EVENT", Undefined}

callTransition ==
  \E currentState \in ProbeStates, event \in ProbeEvents, FS \in Backends :
    /\ probe' = [currentState |-> currentState, event |-> event,
                 result |-> transition(currentState, event),
                 FS |-> FS, onBackend |-> transitionOn(FS, currentState, event)]
    /\ UNCHANGED <<build, turboHome, flowState, addressViewModel, contactViewModel,
                   estimateViewModel, lookups, addressSubmissions,
                   contactSubmissions, out>>

NextTransition == callTransition

SpecTransition == Init /\ [][NextTransition]_vars

(***************************************************************************)
(* Properties of transition, under SpecTransition.                         *)
(***************************************************************************)
Probed == probe # NoProbe

InvalidTransitionRecord(state, event) ==
  [name |-> "Invalid State Transition Triggered",
   properties |-> [current_state_str |-> state, event_str |-> event]]

\* C1: for every state of the table and every event the state does not
\* define, transition returns the input state, does not throw, and emits
\* exactly one 'Invalid State Transition Triggered' record carrying that
\* state and that event.
C1_UndefinedEventIsReported ==
  (/\ Probed
   /\ probe.currentState \in States
   /\ probe.event \notin DOMAIN states[probe.currentState].transitions)
  => /\ ~probe.result.threw
     /\ probe.result.value = probe.currentState
     /\ probe.result.tracked =
          <<InvalidTransitionRecord(probe.currentState, probe.event)>>

\* The graph of the specification: 26 edges over the 12 states.
ReferenceTopology ==
  {<<"default", "SUBMIT_ADDRESS", "addressFormProcessing">>,
   <<"default", "START_MODAL_FLOW", "modalAddressForm">>,
   <<"addressFormProcessing", "SUCCESS", "contactForm">>,
   <<"addressFormProcessing", "SKIP_CONTACT", "estimateResults">>,
   <<"addressFormProcessing", "ERROR", "addressFormError">>,
   <<"addressFormError", "SUBMIT_ADDRESS", "addressFormProcessing">>,
   <<"modalAddressForm", "SUBMIT_ADDRESS", "modalAddressFormProcessing">>,
   <<"modalAddressForm", "EXIT", "default">>,
   <<"modalAddressFormProcessing", "SUCCESS", "contactForm">>,
   <<"modalAddressFormProcessing", "SKIP_CONTACT", "estimateResults">>,
   <<"modalAddressFormProcessing", "ERROR", "modalAddressFormError">>,
   <<"modalAddressFormProcessing", "EXIT", "default">>,
   <<"modalAddressFormError", "SUBMIT_ADDRESS", "modalAddressFormProcessing">>,
   <<"modalAddressFormError", "EXIT", "default">>,
   <<"contactForm", "SUBMIT_CONTACT", "contactFormProcessing">>,
   <<"contactForm", "EXIT", "default">>,
   <<"contactFormProcessing", "SUCCESS", "estimateResults">>,
   <<"contactFormProcessing", "ERROR", "contactFormError">>,
   <<"contactFormProcessing", "EXIT", "default">>,
   <<"contactFormError", "SUBMIT_CONTACT", "contactFormProcessing">>,
   <<"contactFormError", "EXIT", "default">>,
   <<"estimateResults", "SCHEDULE", "scheduleConsultation">>,
   <<"estimateResults", "REQUEST_COMMUNITY", "requestedCommunity">>,
   <<"estimateResults", "EXIT", "default">>,
   <<"scheduleConsultation", "EXIT", "default">>,
   <<"requestedCommunity", "EXIT", "default">>}

ReferenceStates ==
  {"default", "addressFormProcessing", "addressFormError", "modalAddressForm",
   "modalAddressFormProcessing", "modalAddressFormError", "contactForm",
   "contactFormProcessing", "contactFormError", "estimateResults",
   "scheduleConsultation", "requestedCommunity"}

TableEdges ==
  {<<s, e, states[s].transitions[e].target>> :
     <<s, e>> \in {x \in States \X Events : x[2] \in DOMAIN states[x[1]].transitions}}

\* C2: the table is exactly the reference topology of 26 edges over the 12
\* states; for every listed (state, event) pair transition returns the listed
\* target and emits no diagnostic, and no pair outside the list changes the
\* state.
C2_TableIsReferenceTopology ==
  /\ States = ReferenceStates
  /\ \A s \in States : DOMAIN states[s].transitions \subseteq Events
  /\ TableEdges = ReferenceTopology
  /\ Cardinality(ReferenceTopology) = 26
  /\ (Probed /\ probe.currentState \in States) =>
       /\ ~probe.result.threw
       /\ \A t \in States :
            <<probe.currentState, probe.event, t>> \in ReferenceTopology
              => probe.result.value = t /\ probe.result.tracked = <<>>
       /\ (\A t \in States :
            <<probe.currentState, probe.event, t>> \notin ReferenceTopology)
              => probe.result.value = probe.currentState

\* C4: in every state that defines EXIT, EXIT leads to 'default'; 'default'
\* defines no EXIT, so EXIT fired in 'default' leaves the state 'default' and
\* is reported as an invalid transition.
C4_ExitLeadsToDefault ==
  (Probed /\ probe.currentState \in States /\ probe.event = "EXIT") =>
    /\ "EXIT" \in DOMAIN states[probe.currentState].transitions
         => probe.result = [threw |-> FALSE, value |-> "default", tracked |-> <<>>]
    /\ probe.currentState = "default" =>
         /\ "EXIT" \notin DOMAIN states["default"].transitions
         /\ probe.result =
              [threw |-> FALSE, value |-> "default",
               tracked |-> <<InvalidTransitionRecord("default", "EXIT")>>]

C4_ExitFiredWhereDefinedAndInDefault ==
  /\ Probed
  /\ probe.event = "EXIT"
  /\ \/ probe.currentState = "default" /\ probe.result.tracked # <<>>
     \/ probe.currentState = "contactFormProcessing" /\ probe.result.value = "default"

\* C5: transition called with a currentState that is not a key of the table
\* throws instead of returning a state, for every event, and emits no
\* invalid-transition diagnostic.
C5_UnknownStateThrows ==
  (Probed /\ probe.currentState \notin States) =>
    /\ probe.result.threw
    /\ probe.result.value = Undefined
    /\ probe.result.tracked = <<>>

C5_UnknownStateProbed ==
  /\ Probed
  /\ probe.currentState = "unknownState"
  /\ probe.event = "SUBMIT_ADDRESS"
  /\ probe.result.threw

(***************************************************************************)
(* Properties of the handlers.                                             *)
(***************************************************************************)
program ==
  <<flowState, addressViewModel, contactViewModel, estimateViewModel,
    lookups, addressSubmissions, contactSubmissions>>

\* C3: the flow state starts as 'default' and, after any sequence and
\* interleaving of the handlers and their asynchronous completions, is always
\* one of the 12 states of the table.  Under Spec.
C3_FlowStateIsATableState ==
  /\ defaultState = "default"
  /\ flowState \in States
  /\ Cardinality(States) = 12

C3_InterleavedFlow ==
  /\ flowState = "scheduleConsultation"
  /\ Len(lookups) = 1
  /\ Len(addressSubmissions) = 1
  /\ addressViewModel.selectedMatch = "m1"
  /\ addressViewModel.inputValue = "12 Oak"

\* C6: submitAddress called while the flow state is addressFormProcessing or
\* modalAddressFormProcessing is a no-op: the flow state is unchanged, no
\* event is fired, the error message is not cleared, no parcel or estimate
\* call is issued.  Under SpecAddress.
C6_SubmitAddressWhileProcessing ==
  [][(/\ flowState \in {"addressFormProcessing", "modalAddressFormProcessing"}
      /\ out'.op = "submitAddress")
     => /\ UNCHANGED program
        /\ out'.fired = <<>>
        /\ out'.tracked = <<>>
        /\ out'.issued = <<>>
        /\ ~out'.threw]_vars

C6_SubmittedWhileProcessing ==
  /\ flowState = "modalAddressFormProcessing"
  /\ out.op = "submitAddress"
  /\ out.fired = <<>>
  /\ Len(addressSubmissions) = 1

\* C7: submitContact called while the flow state is contactFormProcessing is
\* a no-op: the flow state is unchanged, no event is fired, no lead-creation
\* call is issued and no second analysis sequence is started.  Under
\* SpecContact.
C7_SubmitContactWhileProcessing ==
  [][(flowState = "contactFormProcessing" /\ out'.op = "submitContact")
     => /\ UNCHANGED program
        /\ out'.fired = <<>>
        /\ out'.tracked = <<>>
        /\ out'.issued = <<>>
        /\ ~out'.threw]_vars

C7_SubmittedWhileProcessing ==
  /\ flowState = "contactFormProcessing"
  /\ out.op = "submitContact"
  /\ out.fired = <<>>
  /\ Len(contactSubmissions) = 1

\* C8: from 'default' with a selected match and no parcel details, no
\* estimate and no prior contact submission, submitAddress moves the flow to
\* addressFormProcessing and issues the parcel lookup; once the parcel lookup
\* and then the estimate call have succeeded with no other step in between,
\* the flow is in contactForm with parcel details and estimate results
\* stored.  Under SpecPass.
C8_AddressSubmissionReachesContactForm ==
  [][/\ (/\ flowState = "default"
          /\ isSelected
          /\ ~hasParcelDetails
          /\ ~hasResults
          /\ ~contactViewModel.isSubmitted
          /\ out'.op = "submitAddress")
         => /\ flowState' = "addressFormProcessing"
            /\ out'.fired = <<"SUBMIT_ADDRESS">>
            /\ out'.issued = <<"fetchParcelDetails">>
     /\ (/\ ~hasResults
          /\ out'.op = "fetchParcelDetails resolved"
          /\ out'.origin = "default"
          /\ out'.alone = 2)
         => /\ flowState' = "addressFormProcessing"
            /\ hasParcelDetails'
            /\ out'.issued = <<"fetchEstimateResults">>
     /\ (/\ out'.op = "fetchEstimateResults resolved"
          /\ out'.origin = "default"
          /\ out'.alone = 3)
         => /\ flowState' = "contactForm"
            /\ out'.fired = <<"SUCCESS">>
            /\ hasParcelDetails'
            /\ hasResults']_vars

C8_ContactFormReached ==
  /\ out.op = "fetchEstimateResults resolved"
  /\ out.origin = "default"
  /\ out.alone = 3
  /\ ContactFormReached

\* C9: submitAddress called from 'default' with parcel details, estimate
\* results and a prior contact submission all present fires SUBMIT_ADDRESS
\* then SKIP_CONTACT, the flow goes default, addressFormProcessing,
\* estimateResults, and no parcel, estimate or lead call is issued; if one of
\* the three is absent, SKIP_CONTACT is not fired.  Under SpecPass.
C9_ResubmissionSkipsContact ==
  [][(flowState = "default" /\ out'.op = "submitAddress")
     => IF hasParcelDetails /\ hasResults /\ contactViewModel.isSubmitted
          THEN /\ out'.fired = <<"SUBMIT_ADDRESS", "SKIP_CONTACT">>
               /\ flowState' = "estimateResults"
               /\ out'.issued = <<>>
               /\ UNCHANGED <<addressSubmissions, contactSubmissions>>
          ELSE \A k \in DOMAIN out'.fired : out'.fired[k] # "SKIP_CONTACT"]_vars

\* C10: when the parcel lookup of a submitAddress started in 'default'
\* fails, the flow is in addressFormError, the address error message is
\* non-empty and no estimate call is issued for that submission.  Under
\* SpecAddress.
C10_ParcelFailureEndsInAddressFormError ==
  (out.op = "fetchParcelDetails failed" /\ out.origin = "default")
  => /\ flowState = "addressFormError"
     /\ addressViewModel.errorMessage # ""
     /\ out.issued = <<>>

(***************************************************************************)
(* Failures of the address submission, under SpecAddress.                  *)
(***************************************************************************)
\* C11: whenever the parcel lookup or the estimate call of a submitAddress
\* fails, the address error message is set, exactly the ERROR event is fired
\* (SUCCESS is not), and the submission ends there: it is no longer among
\* the suspended submissions, so no later completion can fire SUCCESS for
\* it.
C11_FailedCallFiresError ==
  [][(out'.op \in {"fetchParcelDetails failed", "fetchEstimateResults failed"})
     => /\ addressViewModel'.errorMessage = AddressSubmitError
        /\ out'.fired = <<"ERROR">>
        /\ ~out'.threw
        /\ ~out'.pending
        /\ \E i \in DOMAIN addressSubmissions :
             addressSubmissions' = RemoveAt(addressSubmissions, i)]_vars

C11_EstimateCallFailed ==
  /\ out.op = "fetchEstimateResults failed"
  /\ out.fired = <<"ERROR">>
  /\ flowState = "addressFormError"
  /\ hasParcelDetails
  /\ ~hasResults
  /\ addressViewModel.errorMessage = AddressSubmitError

(***************************************************************************)
(* The join of submitContact, under SpecContact.                           *)
(***************************************************************************)
\* The step passes the join of the contact submission at position i: the
\* fourth timer of its analysis sequence fires with its lead created, or its
\* lead is created with the four timers fired; the submission ends.
ContactJoinPassedBy(i) ==
  LET sub == contactSubmissions[i] IN
  /\ contactSubmissions' = RemoveAt(contactSubmissions, i)
  /\ \/ out'.op = "analysis timer" /\ sub.ticks = 3 /\ sub.lead = "ok"
     \/ out'.op = "createLead resolved" /\ sub.ticks = 4 /\ sub.lead = "pending"

\* A completion of a contact submission: a timer of its sequence, or the
\* end of its createLead call.
ContactCompletion ==
  out'.op \in {"analysis timer", "createLead resolved", "createLead failed"}

\* C12: a contact submission whose lead is created sets isSubmitted and
\* fires SUCCESS on the step that passes its join and on no earlier step:
\* the step on which the later of the two, the fourth timer of the analysis
\* sequence and the resolution of createLead, happens, whichever it is.
C12_SuccessOnlyAfterBoth ==
  [][/\ (out'.op \in {"analysis timer", "createLead resolved"}
         /\ (out'.fired # <<>> \/ contactViewModel'.isSubmitted # contactViewModel.isSubmitted))
        => \E i \in DOMAIN contactSubmissions : ContactJoinPassedBy(i)
     /\ (\E i \in DOMAIN contactSubmissions : ContactJoinPassedBy(i))
        => /\ contactViewModel'.isSubmitted
           /\ out'.fired = <<"SUCCESS">>]_vars

C12_LeadCreatedAfterTheSequence ==
  /\ out.op = "createLead resolved"
  /\ out.fired = <<"SUCCESS">>
  /\ out.origin = "contactForm"
  /\ contactViewModel.isSubmitted
  /\ contactViewModel.lotAnalysisStep = analysisSteps[4]
  /\ flowState = "estimateResults"

\* C13: a contact submission fires SUCCESS or ERROR, or sets the contact
\* error message, only on a step after which its analysis sequence has no
\* step left to run: the four timers have fired and the submission ends.
C13_NothingFiredBeforeTheSequenceEnds ==
  [][(/\ ContactCompletion
      /\ \/ out'.fired # <<>>
         \/ contactViewModel'.errorMessage # contactViewModel.errorMessage)
     => \E i \in DOMAIN contactSubmissions :
          /\ contactSubmissions' = RemoveAt(contactSubmissions, i)
          /\ contactSubmissions[i].ticks
               + (IF out'.op = "analysis timer" THEN 1 ELSE 0) = 4]_vars

\* C14: when the lead-creation call of a submitContact started in
\* 'contactForm' fails, the contact error message is set, isSubmitted is
\* false, ERROR is fired and the flow is in contactFormError, whatever the
\* number of timers of the analysis sequence that have fired.
C14_LeadFailureEndsInContactFormError ==
  (out.op = "createLead failed" /\ out.origin = "contactForm")
  => /\ contactViewModel.errorMessage = ContactSubmitError
     /\ ~contactViewModel.isSubmitted
     /\ out.fired = <<"ERROR">>
     /\ flowState = "contactFormError"

(***************************************************************************)
(* The contact-submitted flag, under Spec: every handler and completion.   *)
(***************************************************************************)
\* C15: isSubmitted is false after construction, and a step sets it to true
\* only by passing the join of a contact submission whose createLead call
\* has resolved: the submission ends on that step, its lead was created (or
\* is created by the step), the catch block has not run (the error message
\* is as it was), and the step changes nothing of the address form, the
\* estimate or the calls of the address form.
C15_SubmittedOnlyByLeadCreation ==
  /\ ~contactViewModel.isSubmitted
  /\ [][(contactViewModel'.isSubmitted /\ ~contactViewModel.isSubmitted)
        => /\ \E i \in DOMAIN contactSubmissions :
                /\ contactSubmissions' = RemoveAt(contactSubmissions, i)
                /\ contactSubmissions[i].lead \in {"ok", "pending"}
                /\ contactSubmissions[i].ticks >= 3
           /\ contactViewModel'.errorMessage = contactViewModel.errorMessage
           /\ UNCHANGED <<addressViewModel, estimateViewModel, lookups,
                          addressSubmissions>>]_vars

C15_SubmittedAfterLeadCreation ==
  /\ contactViewModel.isSubmitted
  /\ flowState = "estimateResults"
  /\ contactSubmissions = <<>>
  /\ isSelected
  /\ hasParcelDetails
  /\ hasResults

(***************************************************************************)
(* The typeahead, under SpecSelection.                                     *)
(***************************************************************************)
\* C16: right after the synchronous part of every handleInput call,
\* isSelected is false (and can be read), hasParcelDetails is false, the
\* estimate's hasResults is false and the contact's isSubmitted is false,
\* whatever they were before the call.
C16_InputInvalidatesDownstream ==
  [][(out'.op = "handleInput")
     => /\ ~isSelectedThrows'
        /\ ~isSelected'
        /\ ~hasParcelDetails'
        /\ ~hasResults'
        /\ ~contactViewModel'.isSubmitted]_vars

(***************************************************************************)
(* The keyboard in the typeahead, under SpecKeyboard.                      *)
(***************************************************************************)
\* An unselected list of matches is showing.
MatchesShowing ==
  /\ ~isSelectedThrows
  /\ ~isSelected
  /\ Len(addressViewModel.matches) >= 1

\* C17: with an unselected list of n >= 1 matches showing, ArrowUp sets
\* keyboardNavIndex to n-1 from -1 and to one less otherwise; ArrowDown sets
\* it to -1 from n-1 and to one more otherwise.
C17_ArrowKeysWrap ==
  [][LET index == addressViewModel.keyboardNavIndex
         n == Len(addressViewModel.matches)
     IN
     /\ (MatchesShowing /\ out'.op = "handleKeydown ArrowUp")
        => addressViewModel'.keyboardNavIndex = IF index = -1 THEN n - 1 ELSE index - 1
     /\ (MatchesShowing /\ out'.op = "handleKeydown ArrowDown")
        => addressViewModel'.keyboardNavIndex = IF index = n - 1 THEN -1 ELSE index + 1]_vars

\* C18: handleKeydown changes nothing of the address form and of the flow
\* state, and does not block the key, when the key is not ArrowUp, ArrowDown
\* or Enter, or a match is selected, or no match is showing; otherwise Enter
\* selects the match at keyboardNavIndex when that index is not -1, and
\* changes nothing of the address form when it is -1.  Under
\* SpecSelection.
C18_KeydownInterceptsOnlyTheShownList ==
  [][\A key \in Keys :
       (out'.op = "handleKeydown " \o key)
       => LET index == addressViewModel.keyboardNavIndex
              matches == addressViewModel.matches
          IN
          /\ flowState' = flowState
          /\ IF key \notin {"Enter", "ArrowUp", "ArrowDown"} \/ isSelected \/ Len(matches) = 0
               THEN /\ addressViewModel' = addressViewModel
                    /\ ~out'.prevented
             ELSE IF key = "Enter" /\ index # -1
               THEN /\ index + 1 \in DOMAIN matches
                    /\ addressViewModel'.selectedMatch = matches[index + 1]
             ELSE IF key = "Enter"
               THEN addressViewModel' = addressViewModel
             ELSE TRUE]_vars

\* C19: handleMatchSelection(match), called by a click on a match or by
\* Enter on the match at the keyboard index, stores the match as
\* selectedMatch, sets inputValue to its address, ', ' and its context,
\* empties matches and sets keyboardNavIndex to -1; the flow state, the
\* parcel details, the estimate and the contact state are unchanged.  Under
\* SpecSelection.
C19_MatchSelectionCommits ==
  [][LET index == addressViewModel.keyboardNavIndex
         matches == addressViewModel.matches
     IN
     (\/ out'.op = "handleMatchSelection"
      \/ /\ out'.op = "handleKeydown Enter"
         /\ MatchesShowing
         /\ index + 1 \in DOMAIN matches)
     => /\ \E k \in DOMAIN matches :
             /\ out'.op = "handleKeydown Enter" => k = index + 1
             /\ addressViewModel'.selectedMatch = matches[k]
             /\ addressViewModel'.inputValue =
                  Address(matches[k]) \o ", " \o Context(matches[k])
             /\ out'.tracked = AddressSelectedRecord(matches[k])
        /\ addressViewModel'.matches = <<>>
        /\ addressViewModel'.keyboardNavIndex = -1
        /\ addressViewModel'.parcelDetails = addressViewModel.parcelDetails
        /\ addressViewModel'.errorMessage = addressViewModel.errorMessage
        /\ UNCHANGED <<flowState, estimateViewModel, contactViewModel,
                       lookups, addressSubmissions, contactSubmissions>>]_vars

C19_SecondMatchSelectedWithParcelStored ==
  /\ out.op = "handleMatchSelection"
  /\ addressViewModel.selectedMatch = "m2"
  /\ addressViewModel.inputValue = Address("m2") \o ", " \o Context("m2")
  /\ addressViewModel.matches = <<>>
  /\ addressViewModel.keyboardNavIndex = -1
  /\ hasParcelDetails
  /\ flowState = "addressFormProcessing"

(***************************************************************************)
(* The modal, under Spec.                                                  *)
(***************************************************************************)
\* C20: in every reachable state modalHelpers.isOpen is true exactly in the
\* nine states of the modal flow, and false exactly in default,
\* addressFormProcessing and addressFormError.
C20_IsOpenInTheNineModalStates ==
  /\ isOpen <=> flowState \in
       {"modalAddressForm", "modalAddressFormProcessing", "modalAddressFormError",
        "contactForm", "contactFormProcessing", "contactFormError",
        "estimateResults", "scheduleConsultation", "requestedCommunity"}
  /\ ~isOpen <=> flowState \in {"default", "addressFormProcessing", "addressFormError"}

C20_OpenAfterTheEstimate ==
  /\ flowState = "requestedCommunity"
  /\ isOpen
  /\ hasResults

(***************************************************************************)
(* Closing the modal, under SpecContact.                                   *)
(***************************************************************************)
\* C21: handleModalClose called in contactFormProcessing is refused: it
\* fires no event, emits no record (no 'Get Offer Modal Closed'), and the
\* flow state stays contactFormProcessing.
C21_CloseRefusedWhileProcessing ==
  [][(out'.op = "handleModalClose" /\ flowState = "contactFormProcessing")
     => /\ out'.fired = <<>>
        /\ out'.tracked = <<>>
        /\ flowState' = "contactFormProcessing"]_vars

\* C22: in the build with the exit policy, handleModalClose called in
\* contactForm with a contact field populated asks for confirmation, fires
\* EXIT (to 'default') if the user confirms, and fires nothing and stays in
\* contactForm if the user declines; in contactForm with no field populated,
\* and in every state other than contactForm and contactFormProcessing, it
\* fires EXIT without asking.
C22_CloseAsksOnAPopulatedContactForm ==
  [][(out'.op = "handleModalClose" /\ build = "part_000")
     => IF flowState = "contactForm"
          THEN IF out'.received[1]
                 THEN /\ out'.issued = <<"confirm">>
                      /\ IF out'.received[2]
                           THEN out'.fired = <<"EXIT">> /\ flowState' = "default"
                           ELSE /\ out'.fired = <<>>
                                /\ out'.tracked = <<>>
                                /\ flowState' = "contactForm"
                 ELSE /\ out'.issued = <<>>
                      /\ out'.fired = <<"EXIT">>
                      /\ flowState' = "default"
        ELSE IF flowState = "contactFormProcessing"
          THEN TRUE
        ELSE /\ out'.issued = <<>>
             /\ out'.fired = <<"EXIT">>]_vars

C22_UserDeclinedToClose ==
  /\ build = "part_000"
  /\ out.op = "handleModalClose"
  /\ out.issued = <<"confirm">>
  /\ out.received = <<TRUE, FALSE>>
  /\ out.fired = <<>>
  /\ flowState = "contactForm"

(***************************************************************************)
(* Overlapping lookups, under SpecTypeahead.                               *)
(***************************************************************************)
\* C23: nothing cancels a lookup: whenever a lookup resolves, whether or not
\* another one was issued after it, matches becomes the response it
\* received; so after two overlapping lookups have resolved, matches holds
\* the response of the one that resolved last, also when that one was
\* called for the earlier text.
C23_LastCompletedLookupWins ==
  [][(out'.op = "fetchAddressMatches resolved")
     => /\ \E i \in DOMAIN lookups :
             /\ lookups' = RemoveAt(lookups, i)
             /\ out'.origin = lookups[i].query
        /\ out'.received \in {<<result>> : result \in MatchLists(MaxMatches)}
        /\ addressViewModel'.matches = out'.received[1]
        /\ addressViewModel'.inputValue = addressViewModel.inputValue]_vars

C23_EarlierLookupResolvedLast ==
  /\ out.op = "fetchAddressMatches resolved"
  /\ out.origin = "12 Oak"
  /\ addressViewModel.inputValue = "12 Oak St"
  /\ lookups = <<>>
  /\ out.received = <<MatchIds(2)>>
  /\ addressViewModel.matches = MatchIds(2)

(***************************************************************************)
(* Requests that do not complete, under SpecAddress.                       *)
(***************************************************************************)
\* C24: a step that completes no pending request and is taken in a
\* processing state whose request is pending (addressFormProcessing or
\* modalAddressFormProcessing with a parcel or estimate call in flight,
\* contactFormProcessing with a lead call in flight) leaves the flow state
\* as it is, unless it fires EXIT and nothing else, which takes the flow to
\* 'default'.
C24_HungRequestHoldsTheFlow ==
  [][(/\ \/ /\ flowState \in {"addressFormProcessing", "modalAddressFormProcessing"}
            /\ addressSubmissions # <<>>
         \/ /\ flowState = "contactFormProcessing"
            /\ contactSubmissions # <<>>
      /\ addressSubmissions' = addressSubmissions
      /\ contactSubmissions' = contactSubmissions)
     => \/ flowState' = flowState
        \/ /\ out'.fired = <<"EXIT">>
           /\ flowState' = "default"]_vars

(***************************************************************************)
(* Failures of the service calls, under SpecAddress.                       *)
(***************************************************************************)
\* C25: when the failure of a service call has been handled (the address
\* lookup of handleInput, the parcel lookup or the estimate call of
\* submitAddress, the lead creation of submitContact), no error has escaped
\* the handler, the error message of its view-model is set, and the flow is
\* in addressFormError, modalAddressFormError or contactFormError.
C25_FailureEntersAnErrorState ==
  /\ (out.op \in {"fetchAddressMatches failed", "fetchParcelDetails failed",
                  "fetchEstimateResults failed"})
     => /\ ~out.threw
        /\ addressViewModel.errorMessage # ""
        /\ flowState \in {"addressFormError", "modalAddressFormError", "contactFormError"}
  /\ (out.op = "createLead failed")
     => /\ ~out.threw
        /\ contactViewModel.errorMessage # ""
        /\ flowState \in {"addressFormError", "modalAddressFormError", "contactFormError"}

(***************************************************************************)
(* Retries, under SpecRetry.                                               *)
(***************************************************************************)
FailedSubmissionCalls ==
  {"fetchParcelDetails failed", "fetchEstimateResults failed", "createLead failed"}

SubmissionCalls == {"fetchParcelDetails", "fetchEstimateResults", "createLead"}

\* The state SUBMIT_ADDRESS leads to from an error state of the address
\* form.
ProcessingStateOf(state) ==
  IF state = "modalAddressFormError" THEN "modalAddressFormProcessing"
  ELSE "addressFormProcessing"

\* What a resubmission does: submitAddress called in addressFormError or
\* modalAddressFormError fires SUBMIT_ADDRESS first, clears the address
\* error message and, unless it goes on to fire another event before it
\* returns, leaves the flow in the matching processing state; submitContact
\* called in contactFormError fires SUBMIT_CONTACT, clears the contact error
\* message, issues the lead call and leaves the flow in
\* contactFormProcessing.
ResubmissionReentersProcessing ==
  /\ (out'.op = "submitAddress"
      /\ flowState \in {"addressFormError", "modalAddressFormError"})
     => /\ out'.fired[1] = "SUBMIT_ADDRESS"
        /\ addressViewModel'.errorMessage = ""
        /\ Len(out'.fired) = 1 => flowState' = ProcessingStateOf(flowState)
  /\ (out'.op = "submitContact" /\ flowState = "contactFormError")
     => /\ out'.fired = <<"SUBMIT_CONTACT">>
        /\ contactViewModel'.errorMessage = ""
        /\ out'.issued = <<"sequenceLotAnalysisSteps", "createLead">>
        /\ flowState' = "contactFormProcessing"

\* C26: on the step after the failure of a parcel, estimate or lead call, a
\* parcel, estimate or lead call is issued only by a call of submitAddress
\* or submitContact; and a resubmission from an error state re-enters the
\* matching processing state with the error message cleared.
C26_NoCallAfterAFailureUntilResubmission ==
  [][/\ (/\ out.op \in FailedSubmissionCalls
         /\ \E k \in DOMAIN out'.issued : out'.issued[k] \in SubmissionCalls)
        => out'.op \in {"submitAddress", "submitContact"}
     /\ ResubmissionReentersProcessing]_vars

(***************************************************************************)
(* The shape of the table, under SpecTransition.                           *)
(***************************************************************************)
\* The states one event leads to from `state`.
Successors(state) ==
  {transition(state, event).value : event \in DOMAIN states[state].transitions}

\* The states some sequence of events leads to from the states of `from`.
RECURSIVE ReachableFrom(_)
ReachableFrom(from) ==
  LET further == from \cup UNION {Successors(state) : state \in from} IN
  IF further = from THEN from ELSE ReachableFrom(further)

\* C27: the machine has no terminal state and is cyclic: every state of the
\* table defines at least one event and every target is a state of the
\* table, 'default' is reachable from every state, every state is reachable
\* from 'default', and a call of transition that takes a defined event lands
\* in a state from which 'default' is reachable again.
C27_MachineIsCyclic ==
  /\ \A state \in States :
       /\ DOMAIN states[state].transitions # {}
       /\ Successors(state) \subseteq States
       /\ defaultState \in ReachableFrom({state})
  /\ ReachableFrom({defaultState}) = States
  /\ (probe.currentState \in States
      /\ probe.event \in DOMAIN states[probe.currentState].transitions)
     => /\ probe.result.value \in States
        /\ defaultState \in ReachableFrom({probe.result.value})
        /\ probe.currentState \in ReachableFrom({probe.result.value})

\* A state without EXIT is left by resubmitting.
C27_ErrorStateLeftByResubmitting ==
  /\ probe.currentState = "addressFormError"
  /\ DOMAIN states[probe.currentState].transitions = {"SUBMIT_ADDRESS"}
  /\ probe.event = "SUBMIT_ADDRESS"
  /\ probe.result.value = "addressFormProcessing"

(***************************************************************************)
(* The two buttons of the estimate, under SpecEstimate.                    *)
(***************************************************************************)
\* What a click of one of the two buttons does: it fires `event`, which
\* moves the flow from estimateResults to `target` and leaves every other
\* state as it is; it tracks one record named `eventName`, carrying the
\* parcel details, the jurisdiction status, the estimate and the five
\* contact fields of the stores and nothing else, after the record of the
\* invalid transition if there is one; it changes
\* none of the address, estimate and contact data and issues no call.
ClickTracked(event, target, eventName) ==
  LET clicks == {k \in DOMAIN out'.tracked : out'.tracked[k].name = eventName} IN
  /\ out'.fired = <<event>>
  /\ ~out'.threw
  /\ out'.issued = <<>>
  /\ flowState' = IF flowState = "estimateResults" THEN target ELSE flowState
  /\ Len(out'.tracked) = IF flowState = "estimateResults" THEN 1 ELSE 2
  /\ clicks = {Len(out'.tracked)}
  /\ \A k \in clicks :
       /\ out'.tracked[k].properties.parcelDetails = addressViewModel.parcelDetails
       /\ out'.tracked[k].properties.jurisdiction_status_str
            = estimateViewModel.jurisdiction.status
       /\ out'.tracked[k].properties.estimate = estimateViewModel.estimate
       /\ out'.tracked[k].properties.contact_first_name_str = contactViewModel.firstName
       /\ out'.tracked[k].properties.contact_last_name_str = contactViewModel.lastName
       /\ out'.tracked[k].properties.contact_email_str = contactViewModel.email
       /\ out'.tracked[k].properties.contact_phone_str = contactViewModel.phone
       /\ out'.tracked[k].properties.contact_desired_timeline_str
            = contactViewModel.desiredTimeline
       /\ DOMAIN out'.tracked[k].properties =
            {"parcelDetails", "jurisdiction_status_str", "estimate",
             "contact_first_name_str", "contact_last_name_str", "contact_email_str",
             "contact_phone_str", "contact_desired_timeline_str"}
  /\ \A k \in DOMAIN out'.tracked \ clicks :
       out'.tracked[k].name = "Invalid State Transition Triggered"
  /\ UNCHANGED <<addressViewModel, estimateViewModel, contactViewModel>>

\* C28: handleScheduleConsultationClick fires SCHEDULE and
\* handleRequestCommunityClick fires REQUEST_COMMUNITY; from estimateResults
\* they move the flow to scheduleConsultation and requestedCommunity, from
\* any other state they leave it unchanged; either way one record of the
\* click with the context of the stores is tracked, and the address,
\* estimate and contact data are unchanged.
C28_ClicksFireAndTrackOnce ==
  [][/\ out'.op = "handleScheduleConsultationClick"
        => ClickTracked("SCHEDULE", "scheduleConsultation",
                        "Schedule Consultation Clicked")
     /\ out'.op = "handleRequestCommunityClick"
        => ClickTracked("REQUEST_COMMUNITY", "requestedCommunity",
                        "Community Requested")]_vars

C28_ConsultationScheduledFromTheEstimate ==
  /\ out.op = "handleScheduleConsultationClick"
  /\ flowState = "scheduleConsultation"
  /\ Len(out.tracked) = 1
  /\ out.tracked[1].properties.parcelDetails = "parcel"
  /\ out.tracked[1].properties.estimate = estimateViewModel.estimate
  /\ out.tracked[1].properties.contact_first_name_str = "Ada"
  /\ out.tracked[1].properties.contact_last_name_str = "Lovelace"
  /\ out.tracked[1].properties.contact_email_str = "ada@example.com"
  /\ out.tracked[1].properties.contact_phone_str = "555 0100"
  /\ out.tracked[1].properties.contact_desired_timeline_str = "this year"
  /\ hasEstimate
  /\ contactViewModel.isSubmitted

\* The click outside estimateResults: the flow stays, two records.
C28_CommunityRequestedOutsideTheEstimate ==
  /\ out.op = "handleRequestCommunityClick"
  /\ flowState = "contactForm"
  /\ Len(out.tracked) = 2

(***************************************************************************)
(* The calls of one address submission, under SpecAddress.                 *)
(***************************************************************************)
Among(x, seq) == \E k \in DOMAIN seq : seq[k] = x

\* C29: a submitAddress that fires SUBMIT_ADDRESS and does not take the
\* SKIP_CONTACT path issues the parcel lookup exactly when parcel details
\* are absent, and otherwise the estimate call exactly when estimate results
\* are absent; the success of its parcel lookup stores the parcel and issues
\* the estimate call exactly when estimate results are absent; a step issues
\* at most one call; SUCCESS is fired by a step of the submission that
\* issues no call and leaves none of its calls awaited, with the parcel and
\* the estimate stored; a failed call fires no SUCCESS and issues nothing.
C29_MissingDataFetchedInSequence ==
  [][/\ (/\ out'.op = "submitAddress"
         /\ out'.fired # <<>>
         /\ ~out'.threw
         /\ ~Among("SKIP_CONTACT", out'.fired))
        => /\ Among("fetchParcelDetails", out'.issued) <=> ~hasParcelDetails
           /\ Among("fetchEstimateResults", out'.issued)
                <=> (hasParcelDetails /\ ~hasResults)
           /\ Among("SUCCESS", out'.fired) <=> (hasParcelDetails /\ hasResults)
           /\ out'.pending <=> out'.issued # <<>>
     /\ out'.op = "submitAddress" => Len(out'.issued) <= 1
     /\ out'.op = "fetchParcelDetails resolved"
        => /\ hasParcelDetails'
           /\ out'.issued = IF hasResults THEN <<>> ELSE <<"fetchEstimateResults">>
           /\ Among("SUCCESS", out'.fired) <=> hasResults
           /\ out'.pending <=> ~hasResults
           /\ \E i \in DOMAIN addressSubmissions :
                /\ addressSubmissions[i].pc = "parcel"
                /\ addressSubmissions' =
                     IF hasResults THEN RemoveAt(addressSubmissions, i)
                     ELSE [addressSubmissions EXCEPT ![i].pc = "estimate",
                                                     ![i].argument = "payload"]
     /\ out'.op = "fetchEstimateResults resolved"
        => /\ hasResults'
           /\ out'.issued = <<>>
           /\ ~out'.pending
           /\ out'.fired[1] = "SUCCESS"
           /\ \E i \in DOMAIN addressSubmissions :
                /\ addressSubmissions[i].pc = "estimate"
                /\ addressSubmissions' = RemoveAt(addressSubmissions, i)
     /\ out'.op \in {"fetchParcelDetails failed", "fetchEstimateResults failed"}
        => /\ ~Among("SUCCESS", out'.fired)
           /\ out'.issued = <<>>]_vars

\* One submission run through: the parcel fetched, then the estimate, then
\* SUCCESS.
C29_SuccessAfterParcelThenEstimate ==
  /\ out.op = "fetchEstimateResults resolved"
  /\ out.origin = "default"
  /\ out.alone = 3
  /\ out.fired = <<"SUCCESS">>
  /\ flowState = "contactForm"
  /\ hasParcelDetails
  /\ hasResults

(***************************************************************************)
(* The analytics sink, under SpecTransition.                               *)
(***************************************************************************)
\* C30: trackEvent never throws into its caller: whatever the tracking
\* backend (available, absent, undeclared, failing), trackEvent returns
\* normally, and a call of transition has the outcome it has when tracking
\* succeeds: the same value returned, an invalid transition's return of the
\* current state included, and the same records tracked; the backend takes
\* the records only when it is available.
C30_TrackingNeverThrowsIntoItsCaller ==
  Probed =>
  /\ \A FS \in Backends, k \in DOMAIN probe.result.tracked :
       ~trackEventOn(FS, probe.result.tracked[k]).threw
  /\ probe.onBackend.threw = probe.result.threw
  /\ probe.onBackend.value = probe.result.value
  /\ probe.onBackend.tracked = probe.result.tracked
  /\ probe.onBackend = [transitionOn("available", probe.currentState, probe.event)
                          EXCEPT !.delivered = IF probe.FS = "available" THEN @ ELSE <<>>]
  /\ (probe.FS = "available") => probe.onBackend.delivered = probe.result.tracked

\* An invalid transition tracked on a backend whose call fails.
C30_InvalidTransitionOnAFailingBackend ==
  /\ build = "index.js"
  /\ probe.FS = "failing"
  /\ probe.currentState = "contactForm"
  /\ probe.event = "SUCCESS"
  /\ Len(probe.result.tracked) = 1
  /\ probe.onBackend.delivered = <<>>
  /\ ~probe.onBackend.threw
  /\ probe.onBackend.value = "contactForm"

(***************************************************************************)
(* The TurboHome page, under SpecTurboHome.                                *)
(***************************************************************************)
\* C31: the SHOW_INTERRUPTOR_POPUP event of the ten-second timer, which is
\* scheduled only when the flow starts in 'default', changes the flow state
\* only if the state current at that moment defines the event; in every
\* other state, an open modalGetStartedForm or modalGetDemoForm included,
\* the flow state is left as it was, and the call ends normally.
C31_PopupEventMovesOnlyWhereDefined ==
  [][out'.op = "interruptor popup timer"
     => /\ getStartedFlowState(turboHome.getStartedURLParam) = "default"
        /\ turboHome.value \in DOMAIN thStates
        /\ ~out'.threw
        /\ turboHome'.value =
             IF "SHOW_INTERRUPTOR_POPUP" \in DOMAIN thStates[turboHome.value].transitions
               THEN thStates[turboHome.value].transitions["SHOW_INTERRUPTOR_POPUP"].target
               ELSE turboHome.value]_vars

\* The timer fired while the demo form was open.
C31_PopupTimerFiredOverAnOpenForm ==
  /\ out.op = "interruptor popup timer"
  /\ out.origin = "modalGetDemoForm"
  /\ turboHome.value = "modalGetDemoForm"
  /\ turboHome.popupTimer = "fired"
  /\ Len(out.tracked) = 1

\* C39: the flow state value of the TurboHome page is always one of the
\* states of the THGetStartedFlow table (default, modalGetStartedForm,
\* modalGetDemoForm), from the initial value initStores chooses onward, and
\* modal.isOpen is true exactly in modalGetStartedForm and modalGetDemoForm.
C39_ValueIsAStateOfTheTable ==
  /\ turboHome.value \in DOMAIN thStates
  /\ thIsOpen <=> turboHome.value \in {"modalGetStartedForm", "modalGetDemoForm"}

(***************************************************************************)
(* The highlighted match, under SpecKeyboard.                              *)
(***************************************************************************)
\* C32: in every reachable state keyboardNavIndex is -1 or an index into
\* the current matches list (counted from 0), also after a lookup has
\* replaced the list with a shorter one; so Enter never stores an undefined
\* match.
C32_KeyboardNavIndexWithinMatches ==
  /\ \/ addressViewModel.keyboardNavIndex = -1
     \/ /\ 0 <= addressViewModel.keyboardNavIndex
        /\ addressViewModel.keyboardNavIndex < Len(addressViewModel.matches)
  /\ addressViewModel.selectedMatch # Undefined

(***************************************************************************)
(* Overlapping submissions, under SpecRetry.                               *)
(***************************************************************************)
\* C33: every transition into estimateResults happens while
\* contactViewModel.isSubmitted is true: the flow never shows the estimate
\* for a session whose lead has not been created.
C33_EstimateShownOnlyAfterTheLead ==
  [][(flowState' = "estimateResults" /\ flowState # "estimateResults")
     => contactViewModel'.isSubmitted]_vars

(***************************************************************************)
(* Abandoned submissions, under SpecAbandon.                               *)
(***************************************************************************)
AddressCompletions ==
  {"fetchParcelDetails resolved", "fetchEstimateResults resolved",
   "fetchParcelDetails failed", "fetchEstimateResults failed"}

\* The step resumes the i-th address submission: it ends it, or moves it
\* from its parcel lookup to its estimate call.
ResumesAddressSubmission(i) ==
  /\ out'.op \in AddressCompletions
  /\ \/ addressSubmissions' = RemoveAt(addressSubmissions, i)
     \/ /\ addressSubmissions[i].pc = "parcel"
        /\ addressSubmissions' =
             [addressSubmissions EXCEPT ![i].pc = "estimate", ![i].argument = "payload"]

\* C34: the completion of an address submission the user abandoned with
\* EXIT never changes the flow state: not while the flow is outside the
\* address-processing states, and not when a later submission has entered a
\* processing state again; only the completion of the submission that
\* entered the current processing state, the latest one, moves the flow.
C34_AbandonedCompletionLeavesTheFlow ==
  [][\A i \in DOMAIN addressSubmissions :
       (/\ ResumesAddressSubmission(i)
        /\ \/ i < Len(addressSubmissions)
           \/ ~addressFormProcessing)
       => flowState' = flowState]_vars

(***************************************************************************)
(* Lead calls, under SpecContact.                                          *)
(***************************************************************************)
\* The submitContact calls whose createLead has not yet resolved.
OutstandingLeadCalls ==
  {i \in DOMAIN contactSubmissions : contactSubmissions[i].lead = "pending"}

\* C35: at most one lead-creation call is outstanding at any time: no
\* createLead is issued while an earlier one has not resolved.
C35_OneLeadCallAtATime ==
  Cardinality(OutstandingLeadCalls) <= 1

\* The state defines the event.
Defines(state, event) ==
  state \in States /\ event \in DOMAIN states[state].transitions

\* C36: a service call is issued only when the submit transition was taken:
\* submitContact issues createLead only when SUBMIT_CONTACT moved the flow
\* into contactFormProcessing, and submitAddress issues the parcel or the
\* estimate call only when SUBMIT_ADDRESS moved the flow into an
\* address-processing state; called in a state that does not define the
\* submit event they issue no call.
C36_CallsOnlyAfterTheSubmitTransition ==
  [][/\ (out'.op = "submitContact" /\ out'.issued # <<>>)
        => /\ Defines(flowState, "SUBMIT_CONTACT")
           /\ flowState' = "contactFormProcessing"
     /\ (out'.op = "submitAddress" /\ out'.issued # <<>>)
        => /\ Defines(flowState, "SUBMIT_ADDRESS")
           /\ flowState' \in {"addressFormProcessing", "modalAddressFormProcessing"}]_vars

(***************************************************************************)
(* Stored data, under SpecAddress.                                         *)
(***************************************************************************)
\* C37: in every reachable state stored downstream data is consistent with
\* upstream data: estimate results are stored only with parcel details, and
\* parcel details only with a selected match.
C37_DownstreamDataHasItsUpstream ==
  /\ hasResults => hasParcelDetails
  /\ hasParcelDetails => (~isSelectedThrows /\ isSelected)

(***************************************************************************)
(* Error messages, under SpecRetry.                                        *)
(***************************************************************************)
\* C38: whenever the flow state is contactFormError the contact
\* view-model's errorMessage is non-empty, and whenever it is
\* addressFormError or modalAddressFormError the address view-model's
\* errorMessage is non-empty, whichever operation fired the ERROR event.
C38_ErrorStateShowsItsMessage ==
  /\ flowState = "contactFormError" => contactViewModel.errorMessage # ""
  /\ flowState \in {"addressFormError", "modalAddressFormError"}
     => addressViewModel.errorMessage # ""

====
